---- MODULE Spec2Model ----
(***************************************************************************)
(* Model of the netlog event-correlation engine of speed-test-analysis:    *)
(*   - processNetlogFile      (ookla/netlog-filter/netlog-processing.js)   *)
(*   - captureBytecountData   (filter-bytecounts)                          *)
(*   - captureLatencyData, calculateLatencyStatistics (filter-latency-data)*)
(*   - processHttpStreamJobIds, processSocketIds (filter-sockets.js)       *)
(*   - collectUrlsFromNetlog, separateHelloUrlsByTiming (filter-urls.js)   *)
(*                                                                         *)
(* Conventions.  A JavaScript value that may be null/undefined/absent is   *)
(* held as a set: {} for absent, {v} for the value v.  Event times are the *)
(* integers the capture's time strings denote.  mean_rtt and median_rtt    *)
(* are held in hundredths (the code rounds both to two decimal places).    *)
(***************************************************************************)
EXTENDS Integers, Sequences, FiniteSets, TLC

\* ------------------------------------------------------------------ bounds
MaxId == 2
MaxTime == 2
MaxEvents == 3
MaxStreams == 4
MaxSourceId == 4

\* ------------------------------------------------------- optional values
Null == {}
Some(v) == {v}
Val(x) == CHOOSE v \in x : TRUE

\* What reading a property that an object does not have gives.
undefined == -1

\* ------------------------------------------------------------- the capture
\* The symbol table of a capture that names every event type the engine
\* refers to (constants.logEventTypes): name -> code.
completeLogEventTypes ==
    [REQUEST_ALIVE |-> 2,
     URL_REQUEST_JOB_FILTERED_BYTES_READ |-> 123,
     URL_REQUEST_BYTES_READ |-> 160,
     UPLOAD_DATA_STREAM_READ |-> 450,
     HTTP_TRANSACTION_SEND_REQUEST_HEADERS |-> 176,
     HTTP_TRANSACTION_READ_RESPONSE_HEADERS |-> 181,
     HTTP_STREAM_REQUEST_BOUND_TO_JOB |-> 136,
     SOCKET_POOL_BOUND_TO_SOCKET |-> 114]

\* String.prototype.includes on the strings that occur in the model: a text
\* contains itself and the endpoint fragment that follows its host part.
FragmentsOf(text) ==
    CASE text = "https://srv:8080/download?nocache=a" ->
            {text, "download?nocache=a", "8080/download?nocache="}
      [] text = "https://srv:8080/download?nocache=d" ->
            {text, "download?nocache=d", "8080/download?nocache="}
      [] text = "https://srv:8080/upload?nocache=a" ->
            {text, "upload?nocache=a", "8080/upload?nocache="}
      [] text = "https://srv:8080/hello?nocache=b" ->
            {text, "hello?nocache=b", "8080/hello?nocache="}
      [] text = "https://srv:8080/hello?nocache=c" ->
            {text, "hello?nocache=c", "8080/hello?nocache="}
      [] text = "GET /download?nocache=a HTTP/1.1" -> {text, "download?nocache=a"}
      [] text = "POST /upload?nocache=a HTTP/1.1" -> {text, "upload?nocache=a"}
      [] text = "GET /hello?nocache=b HTTP/1.1" -> {text, "hello?nocache=b"}
      [] text = "GET /hello?nocache=c HTTP/1.1" -> {text, "hello?nocache=c"}
      [] OTHER -> {text}

Includes(text, frag) == frag \in FragmentsOf(text)

\* An event of the capture: type code, source.id, time and the params fields
\* the engine reads (each absent or present).  form tells what the entry of
\* the events array is: "object" is an event with its source and params.
Event(type, id, time, url, line, byte_count, current_position, dep) ==
    [form |-> "object",
     type |-> type, id |-> id, time |-> time, url |-> url, line |-> line,
     byte_count |-> byte_count, current_position |-> current_position,
     source_dependency |-> dep]

\* Entries of the events array that are not such an event: null, a value
\* with neither source nor params (a number, a string, an object like
\* {"a":1}), an object without source and an object without params.  The fields an entry lacks are never read.
NullEntry ==
    [Event(undefined, 0, 0, Null, Null, Null, Null, Null) EXCEPT !.form = "null"]
ValueEntry ==
    [Event(undefined, 0, 0, Null, Null, Null, Null, Null) EXCEPT !.form = "value"]
NoSourceEntry(type, time, url, line, byte_count) ==
    [Event(type, 0, time, url, line, byte_count, Null, Null)
        EXCEPT !.form = "no_source"]
NoParamsEntry(type, id, time) ==
    [Event(type, id, time, Null, Null, Null, Null, Null)
        EXCEPT !.form = "no_params"]

\* eventData.hasOwnProperty('params') && typeof (eventData.params) === 'object'
hasParams(e) == e.form \in {"object", "no_source"}

\* eventData.source is an object, so that eventData.source.id can be read.
hasSource(e) == e.form \in {"object", "no_params"}

VARIABLES
    logEventTypes,          \* constants.logEventTypes of the capture
    pc,                     \* position of the run
    log,                    \* events processed so far (the prefix of events)
    testType,               \* 'download' | 'upload' (splitTestTypeUrls)
    split_urls,             \* target fragments of the test direction
    split_unloaded_urls,    \* target fragments of the unloaded latency pool
    split_loaded_urls,      \* target fragments of the loaded latency pool
    results,                \* recognized sources, one entry per opening event
    byte_time_list,         \* download stream records
    current_position_list,  \* upload stream records
    latency_data,           \* the three latency pools and their statistics
    http_stream_job_ids,    \* httpStreamJobIds.json: pairs [stream, job]
    socketIds,              \* socketIds.json: triples [stream, job, socket]
    stage_errors,           \* the stages whose catch has logged an error
    url_list,               \* collected [url, source id] pairs per class
    latency_urls,           \* hello URLs per direction and load state
    jsonString,             \* the text fixAndParseJSON is given
    netlog,                 \* content of the capture file netlog.json
    parsed,                 \* what fixAndParseJSON returned
    download_urls_json,     \* content of download/download_urls.json
    upload_urls_json,       \* content of upload/upload_urls.json
    filterMode,             \* parseCLIArgs: null | 'download' | 'upload'
    steps,                  \* URL files processNetlogFile was called with
    exit_code               \* exit status of the process, once it has ended

passVars == <<log, testType, split_urls, split_unloaded_urls, split_loaded_urls,
              results, byte_time_list, current_position_list, latency_data>>

socketVars == <<http_stream_job_ids, socketIds, stage_errors>>

urlVars == <<url_list, latency_urls>>

fileVars == <<logEventTypes, jsonString, netlog, parsed, download_urls_json,
              upload_urls_json>>

mainVars == <<filterMode, steps, exit_code>>

vars == <<pc, passVars, socketVars, urlVars, fileVars, mainVars>>

\* mapEventNamesToIds copies the entries of the capture's table; a name the
\* table lacks is left out, and looking it up gives undefined.
logEvent_ids(name) ==
    IF name \in DOMAIN logEventTypes THEN logEventTypes[name] ELSE undefined

\* No file is under repair and no driver is running: the functions are
\* exercised on their own, on a capture with a complete symbol table.
NoFiles ==
    /\ logEventTypes = completeLogEventTypes
    /\ jsonString = <<>>
    /\ netlog = <<>>
    /\ parsed = Null
    /\ download_urls_json = Null
    /\ upload_urls_json = Null
    /\ filterMode = Null
    /\ steps = <<>>
    /\ exit_code = Null

\* ------------------------------------------------- Stream Identity Correlator
\* Mutant of isRecognized: the id comparison is lost, any recognized source
\* admits every event.
isRecognizedAnySource(res, id) ==
    \E i \in DOMAIN res : res[i].sourceID \in Nat

\* results.some(result => result.sourceID && result.sourceID.id === id)
isRecognized(res, id) ==
    \E i \in DOMAIN res : res[i].sourceID = id

\* Check #1 of the event pass: the event carries params.url, and some target
\* fragment is contained in it while the type is the REQUEST_ALIVE code.
openingCheck(e, urls) ==
    /\ hasParams(e)
    /\ e.url # Null
    /\ \E i \in DOMAIN urls :
          /\ Includes(Val(e.url), urls[i])
          /\ e.type = logEvent_ids("REQUEST_ALIVE")

\* ------------------------------------------------- Throughput Series Builder
\* Array.prototype.findIndex by record id; 0 stands for JavaScript's -1.
findIndex(list, id) ==
    IF \E i \in DOMAIN list : list[i].id = id
    THEN CHOOSE i \in DOMAIN list :
            /\ list[i].id = id
            /\ \A j \in DOMAIN list : list[j].id = id => i <= j
    ELSE 0

\* Mutant of pushProgress: the entry is put in front (unshift for push).
pushProgressFront(list, id, type, entry) ==
    LET withRec == IF findIndex(list, id) = 0
                   THEN Append(list, [id |-> id, type |-> type, progress |-> <<>>])
                   ELSE list
        k == findIndex(withRec, id)
    IN [withRec EXCEPT ![k].progress = <<entry>> \o @]

\* Mutant of pushProgress: the record is looked up once, before it is
\* created, so a later entry lands in a second record of the same id.
pushProgressNewRecord(list, id, type, entry) ==
    Append(list, [id |-> id, type |-> type, progress |-> <<entry>>])

\* list[existingIdIndex].progress.push(entry), the record created when absent.
pushProgress(list, id, type, entry) ==
    LET withRec == IF findIndex(list, id) = 0
                   THEN Append(list, [id |-> id, type |-> type, progress |-> <<>>])
                   ELSE list
        k == findIndex(withRec, id)
    IN [withRec EXCEPT ![k].progress = Append(@, entry)]

captureBytecountData(e, res, btl, cpl, tt) ==
    IF ~isRecognized(res, e.id)
    THEN [byte_time_list |-> btl, current_position_list |-> cpl]
    ELSE IF /\ \/ e.type = logEvent_ids("URL_REQUEST_JOB_FILTERED_BYTES_READ")
               \/ e.type = logEvent_ids("URL_REQUEST_BYTES_READ")
            /\ hasParams(e)
            /\ tt = "download"
            /\ e.byte_count # Null
    THEN [byte_time_list |->
              pushProgress(btl, e.id, tt,
                           [bytecount |-> Val(e.byte_count), time |-> e.time]),
          current_position_list |-> cpl]
    ELSE IF /\ e.type = logEvent_ids("UPLOAD_DATA_STREAM_READ")
            /\ hasParams(e)
            /\ tt = "upload"
            /\ e.current_position # Null
    THEN [byte_time_list |-> btl,
          current_position_list |->
              pushProgress(cpl, e.id, tt,
                           [current_position |-> Val(e.current_position),
                            time |-> e.time])]
    ELSE [byte_time_list |-> btl, current_position_list |-> cpl]

\* ------------------------------------------------------ Latency Pair Builder
\* JavaScript truthiness of params?.line: present and not the empty string.
truthy(line) == line # Null /\ Val(line) # ""

\* latencyStreams.find(item => item.id === sourceId), as an index (0: none).
findStream(streams, id) ==
    IF \E i \in DOMAIN streams : streams[i].id = id
    THEN CHOOSE i \in DOMAIN streams :
            /\ streams[i].id = id
            /\ \A j \in DOMAIN streams : streams[j].id = id => i <= j
    ELSE 0

\* Mutant of captureLatencyData: a send time that is set is kept
\* (first value wins).
captureLatencyDataFirstWins(e, latencyStreams) ==
    LET withStream ==
            IF findStream(latencyStreams, e.id) = 0
            THEN Append(latencyStreams,
                        [id |-> e.id, send_time |-> Null,
                         recv_time |-> Null, rtt |-> Null])
            ELSE latencyStreams
        k == findStream(withStream, e.id)
        afterSend ==
            IF /\ e.type = logEvent_ids("HTTP_TRANSACTION_SEND_REQUEST_HEADERS")
               /\ truthy(e.line)
               /\ withStream[k].send_time = Null
            THEN [withStream EXCEPT ![k].send_time = Some(e.time)]
            ELSE withStream
        received == [afterSend EXCEPT ![k].recv_time = Some(e.time)]
    IN  IF e.type = logEvent_ids("HTTP_TRANSACTION_READ_RESPONSE_HEADERS")
        THEN IF received[k].send_time # Null /\ received[k].recv_time # Null
             THEN [received EXCEPT
                     ![k].rtt = Some(Val(received[k].recv_time)
                                     - Val(received[k].send_time))]
             ELSE received
        ELSE afterSend

captureLatencyData(e, latencyStreams) ==
    LET withStream ==
            IF findStream(latencyStreams, e.id) = 0
            THEN Append(latencyStreams,
                        [id |-> e.id, send_time |-> Null,
                         recv_time |-> Null, rtt |-> Null])
            ELSE latencyStreams
        k == findStream(withStream, e.id)
        afterSend ==
            IF /\ e.type = logEvent_ids("HTTP_TRANSACTION_SEND_REQUEST_HEADERS")
               /\ truthy(e.line)
            THEN [withStream EXCEPT ![k].send_time = Some(e.time)]
            ELSE withStream
        received == [afterSend EXCEPT ![k].recv_time = Some(e.time)]
    IN  IF e.type = logEvent_ids("HTTP_TRANSACTION_READ_RESPONSE_HEADERS")
        THEN IF received[k].send_time # Null /\ received[k].recv_time # Null
             THEN [received EXCEPT
                     ![k].rtt = Some(Val(received[k].recv_time)
                                     - Val(received[k].send_time))]
             ELSE received
        ELSE afterSend

\* Mutant of latencyCheck: a receive event is captured whether or not its
\* source has a stream in the pool.
latencyCheckAnyReceive(e, streams, urls) ==
    IF hasParams(e) /\ Len(urls) > 0
    THEN LET sent ==
                 IF /\ e.type = logEvent_ids("HTTP_TRANSACTION_SEND_REQUEST_HEADERS")
                    /\ e.line # Null
                    /\ \E i \in DOMAIN urls : Includes(Val(e.line), urls[i])
                 THEN captureLatencyData(e, streams)
                 ELSE streams
         IN  IF e.type = logEvent_ids("HTTP_TRANSACTION_READ_RESPONSE_HEADERS")
             THEN captureLatencyData(e, sent)
             ELSE sent
    ELSE streams

\* Checks #3, #4 and #5 of the event pass, for one pool and its fragments:
\* a send event whose line contains a fragment, then a receive event whose
\* source already has a stream in the pool.
latencyCheck(e, streams, urls) ==
    IF hasParams(e) /\ Len(urls) > 0
    THEN LET sent ==
                 IF /\ e.type = logEvent_ids("HTTP_TRANSACTION_SEND_REQUEST_HEADERS")
                    /\ e.line # Null
                    /\ \E i \in DOMAIN urls : Includes(Val(e.line), urls[i])
                 THEN captureLatencyData(e, streams)
                 ELSE streams
         IN  IF /\ e.type = logEvent_ids("HTTP_TRANSACTION_READ_RESPONSE_HEADERS")
                /\ \E i \in DOMAIN sent : sent[i].id = e.id
             THEN captureLatencyData(e, sent)
             ELSE sent
    ELSE streams

\* ---------------------------------------------------------------- statistics
RECURSIVE filterNonNullRtts(_)
\* Mutant of filterValidRtts: only the null test is kept.
filterNonNullRtts(streams) ==
    IF streams = <<>> THEN <<>>
    ELSE LET s == Head(streams)
         IN  IF s.rtt # Null
             THEN <<Val(s.rtt)>> \o filterNonNullRtts(Tail(streams))
             ELSE filterNonNullRtts(Tail(streams))

RECURSIVE filterValidRtts(_)
\* streams.filter(s => s.rtt !== null && s.rtt >= 0).map(s => s.rtt)
filterValidRtts(streams) ==
    IF streams = <<>> THEN <<>>
    ELSE LET s == Head(streams)
         IN  IF s.rtt # Null /\ Val(s.rtt) >= 0
             THEN <<Val(s.rtt)>> \o filterValidRtts(Tail(streams))
             ELSE filterValidRtts(Tail(streams))

RECURSIVE reduceSum(_, _)
\* validRtts.reduce((acc, rtt) => acc + rtt, 0)
reduceSum(rtts, acc) ==
    IF rtts = <<>> THEN acc ELSE reduceSum(Tail(rtts), acc + Head(rtts))

RECURSIVE insertSorted(_, _)
insertSorted(sorted, x) ==
    IF sorted = <<>> THEN <<x>>
    ELSE IF x - Head(sorted) < 0 THEN <<x>> \o sorted
    ELSE <<Head(sorted)>> \o insertSorted(Tail(sorted), x)

\* Mutant of sortAscending: the list is used as it arrived.
sortOmitted(rtts) == rtts

RECURSIVE sortAscending(_)
\* [...validRtts].sort((a, b) => a - b)
sortAscending(rtts) ==
    IF rtts = <<>> THEN <<>>
    ELSE insertSorted(sortAscending(Tail(rtts)), Head(rtts))

\* Math.round(x * 100) for x = num / den with num >= 0, den > 0: the nearest
\* integer to 100 * num / den, a tie rounded up.
roundHundredths(num, den) == (200 * num + den) \div (2 * den)

calculateLatencyStatistics(latencyStreams) ==
    LET validRtts == filterValidRtts(latencyStreams)
        count_rtt == Len(validRtts)
        sum == reduceSum(validRtts, 0)
        sortedRtts == sortAscending(validRtts)
        n == Len(sortedRtts)
    IN  IF Len(validRtts) = 0
        THEN [count_rtt |-> 0, mean_rtt |-> 0, median_rtt |-> 0]
        ELSE [count_rtt |-> count_rtt,
              mean_rtt |-> roundHundredths(sum, count_rtt),
              median_rtt |->
                  IF n % 2 = 0
                  THEN roundHundredths(sortedRtts[n \div 2]
                                       + sortedRtts[n \div 2 + 1], 2)
                  ELSE roundHundredths(sortedRtts[n \div 2 + 1], 1)]

updateAllLatencyStatistics(ld) ==
    [test_latency |->
        [streams |-> ld.test_latency.streams,
         latency_ms |-> calculateLatencyStatistics(ld.test_latency.streams)],
     unloaded_latency |->
        [streams |-> ld.unloaded_latency.streams,
         latency_ms |-> calculateLatencyStatistics(ld.unloaded_latency.streams)],
     loaded_latency |->
        [streams |-> ld.loaded_latency.streams,
         latency_ms |-> calculateLatencyStatistics(ld.loaded_latency.streams)]]

\* ------------------------------------------------------------ URL Classifier
DOWNLOAD_PATTERN == "8080/download?nocache="
UPLOAD_PATTERN == "8080/upload?nocache="
HELLO_PATTERN == "8080/hello?nocache="

emptyUrlList == [download |-> <<>>, upload |-> <<>>, hello |-> <<>>]

emptyLatencyUrls ==
    [download |-> [unload |-> <<>>, load |-> <<>>],
     upload |-> [unload |-> <<>>, load |-> <<>>]]

\* An event as collectUrlsFromNetlog reads it: source.id, params.url and,
\* for cache entries, params.created and params.key; the key is held as its
\* parts between blanks (key.split(' ')).
UrlEvent(id, url, created, key) ==
    [id |-> id, url |-> url, created |-> created, key |-> key]

\* !list.some(pair => pair[0] === newUrl)
isUniqueUrl(list, newUrl) ==
    ~ \E i \in DOMAIN list : list[i][1] = newUrl

pushIfUnique(list, newUrl, id) ==
    IF isUniqueUrl(list, newUrl) THEN Append(list, <<newUrl, id>>) ELSE list

\* The URL part of one iteration of collectUrlsFromNetlog's events.forEach.
collectUrl(e, ul) ==
    IF e.url = Null THEN ul
    ELSE LET url == Val(e.url)
             fromUrl == IF Includes(url, DOWNLOAD_PATTERN)
                        THEN pushIfUnique(ul.download, url, e.id)
                        ELSE ul.download
             fromKey ==
                 IF /\ e.created
                    /\ e.key # Null
                    /\ \E k \in DOMAIN Val(e.key) :
                          Includes(Val(e.key)[k], DOWNLOAD_PATTERN)
                    /\ Len(Val(e.key)) >= 3
                 THEN pushIfUnique(fromUrl, Val(e.key)[3], e.id)
                 ELSE fromUrl
         IN  [download |-> fromKey,
              upload |-> IF Includes(url, UPLOAD_PATTERN)
                         THEN pushIfUnique(ul.upload, url, e.id)
                         ELSE ul.upload,
              hello |-> IF Includes(url, HELLO_PATTERN)
                        THEN pushIfUnique(ul.hello, url, e.id)
                        ELSE ul.hello]

\* JavaScript truthiness of a boundary id: assigned and not 0.
idSet(x) == x # Null /\ Val(x) # 0

RECURSIVE classifyHellos(_, _, _, _, _)
\* The for loop of separateHelloUrlsByTiming over url_list.hello.
classifyHellos(hello, first_download_id, last_download_id, first_upload_id, acc) ==
    IF hello = <<>> THEN acc
    ELSE LET url == Head(hello)[1]
             hello_id == Head(hello)[2]
             next ==
                 IF idSet(first_download_id) /\ hello_id < Val(first_download_id)
                 THEN [acc EXCEPT !.download.unload = Append(@, url)]
                 ELSE IF /\ idSet(first_download_id) /\ idSet(last_download_id)
                         /\ hello_id > Val(first_download_id)
                         /\ hello_id < Val(last_download_id)
                 THEN [acc EXCEPT !.download.load = Append(@, url)]
                 ELSE IF /\ idSet(last_download_id) /\ idSet(first_upload_id)
                         /\ hello_id > Val(last_download_id)
                         /\ hello_id < Val(first_upload_id)
                 THEN [acc EXCEPT !.upload.unload = Append(@, url)]
                 ELSE IF idSet(first_upload_id) /\ hello_id > Val(first_upload_id)
                 THEN [acc EXCEPT !.upload.load = Append(@, url)]
                 ELSE acc
         IN  classifyHellos(Tail(hello), first_download_id, last_download_id,
                            first_upload_id, next)

separateHelloUrlsByTiming(ul) ==
    LET first_download_id ==
            IF Len(ul.download) # 0 THEN Some(ul.download[1][2]) ELSE Null
        last_download_id ==
            IF Len(ul.download) # 0
            THEN Some(ul.download[Len(ul.download)][2]) ELSE Null
        first_upload_id ==
            IF Len(ul.upload) # 0 THEN Some(ul.upload[1][2]) ELSE Null
    IN  classifyHellos(ul.hello, first_download_id, last_download_id,
                       first_upload_id, emptyLatencyUrls)

\* ----------------------------------------------------- Socket-Chain Resolver
\* Array.prototype.indexOf; 0 stands for JavaScript's -1.
indexOf(list, x) ==
    IF \E i \in DOMAIN list : list[i] = x
    THEN CHOOSE i \in DOMAIN list :
            /\ list[i] = x
            /\ \A j \in DOMAIN list : list[j] = x => i <= j
    ELSE 0

\* The condition of stage 1 throws a TypeError: the entry is null, so that
\* eventData.type cannot be read (params?. and source?. tolerate the rest).
jobCheckThrows(e) == e.form = "null"

\* Mutant of listIncludes: the stream list is not consulted.
listIncludesAny(list, e) == TRUE

\* list.includes(eventData.source?.id)
listIncludes(list, e) ==
    hasSource(e) /\ \E i \in DOMAIN list : list[i] = e.id

RECURSIVE collectJobPairs(_, _)
\* The events.forEach of processHttpStreamJobIds: a pair for every
\* HTTP_STREAM_REQUEST_BOUND_TO_JOB event with a source_dependency whose
\* source id is in the stream list.  Nothing catches inside the loop: at an
\* entry that throws the loop ends with the pairs pushed so far.
collectJobPairs(events, list) ==
    IF events = <<>> THEN <<>>
    ELSE LET e == Head(events)
         IN  IF jobCheckThrows(e) THEN <<>>
             ELSE (IF /\ e.type = logEvent_ids("HTTP_STREAM_REQUEST_BOUND_TO_JOB")
                      /\ e.source_dependency # Null
                      /\ listIncludes(list, e)
                   THEN << <<e.id, Val(e.source_dependency)>> >>
                   ELSE <<>>)
                  \o collectJobPairs(Tail(events), list)

\* Mutant of socketTriple: the socket id is taken from the event's source.
socketTripleFromSource(httpsourceID, httpstreamList, eventIndex, e) ==
    <<httpsourceID[eventIndex], httpstreamList[eventIndex], e.id>>

\* The entry pushed to socketIds for a bound event.
socketTriple(httpsourceID, httpstreamList, eventIndex, e) ==
    <<httpsourceID[eventIndex], httpstreamList[eventIndex],
      Val(e.source_dependency)>>

\* The condition of stage 2 throws a TypeError: the entry is null
\* (null.hasOwnProperty), or it is a SOCKET_POOL_BOUND_TO_SOCKET entry with a
\* source_dependency and eventData.source is missing.
socketCheckThrows(e) ==
    \/ e.form = "null"
    \/ /\ hasParams(e)
       /\ e.source_dependency # Null
       /\ e.type = logEvent_ids("SOCKET_POOL_BOUND_TO_SOCKET")
       /\ ~hasSource(e)

RECURSIVE collectSocketTriples(_, _, _)
\* The events.forEach of processSocketIds: a triple for every
\* SOCKET_POOL_BOUND_TO_SOCKET event with a source_dependency whose source id
\* is found, by indexOf, among the job ids of the pairs.  Nothing catches
\* inside the loop: at an entry that throws the loop ends with the triples
\* pushed so far.
collectSocketTriples(events, httpsourceID, httpstreamList) ==
    IF events = <<>> THEN <<>>
    ELSE LET e == Head(events)
             eventIndex == indexOf(httpstreamList, e.id)
         IN  IF socketCheckThrows(e) THEN <<>>
             ELSE (IF /\ hasParams(e)
                      /\ e.source_dependency # Null
                      /\ e.type = logEvent_ids("SOCKET_POOL_BOUND_TO_SOCKET")
                      /\ eventIndex # 0
                   THEN <<socketTriple(httpsourceID, httpstreamList, eventIndex, e)>>
                   ELSE <<>>)
                  \o collectSocketTriples(Tail(events), httpsourceID, httpstreamList)

\* Mutant of scanSockets: the events are scanned also when there is no pair.
scanSocketsAlways(httpstreamJobs, capture) ==
    LET httpstreamList == [i \in DOMAIN httpstreamJobs |-> httpstreamJobs[i][2]]
        httpsourceID == [i \in DOMAIN httpstreamJobs |-> httpstreamJobs[i][1]]
    IN  [socketIds |-> collectSocketTriples(capture, httpsourceID, httpstreamList),
         thrown |-> \E i \in DOMAIN capture : socketCheckThrows(capture[i])]

\* The try block of processSocketIds from the pairs on: the events are
\* scanned only if there is a pair; thrown tells whether the catch is entered.
scanSockets(httpstreamJobs, capture) ==
    LET httpstreamList == [i \in DOMAIN httpstreamJobs |-> httpstreamJobs[i][2]]
        httpsourceID == [i \in DOMAIN httpstreamJobs |-> httpstreamJobs[i][1]]
    IN  IF Len(httpstreamJobs) # 0
        THEN [socketIds |->
                  collectSocketTriples(capture, httpsourceID, httpstreamList),
              thrown |-> \E i \in DOMAIN capture : socketCheckThrows(capture[i])]
        ELSE [socketIds |-> <<>>, thrown |-> FALSE]

\* Stage 1: the stream list of the direction is read back and the pairs are
\* written to httpStreamJobIds.json, also after the catch has logged an error.
processHttpStreamJobIds ==
    /\ pc = "written"
    /\ LET currentPosList == IF testType = "upload"
                             THEN current_position_list
                             ELSE byte_time_list
           list == [i \in DOMAIN currentPosList |-> currentPosList[i].id]
       IN  http_stream_job_ids' = collectJobPairs(log, list)
    /\ stage_errors' =
          IF \E i \in DOMAIN log : jobCheckThrows(log[i])
          THEN stage_errors \cup {"processHttpStreamJobIds"}
          ELSE stage_errors
    /\ pc' = "jobs"
    /\ UNCHANGED <<passVars, socketIds, urlVars, fileVars, mainVars>>

\* Stage 2: the pairs are read back and the triples are written to
\* socketIds.json, also after the catch has logged an error.
processSocketIds ==
    /\ pc = "jobs"
    /\ LET scan == scanSockets(http_stream_job_ids, log)
       IN  /\ socketIds' = scan.socketIds
           /\ stage_errors' = IF scan.thrown
                              THEN stage_errors \cup {"processSocketIds"}
                              ELSE stage_errors
    /\ pc' = "done"
    /\ UNCHANGED <<passVars, http_stream_job_ids, urlVars, fileVars, mainVars>>

\* ------------------------------------------------------------ capture text
\* A capture text is held as the sequence of its pieces: the opening with the
\* constants, the opening of the events array, complete events, commas, the
\* closing bracket and brace, line breaks, and the starts of an incomplete
\* event.  In every piece that has a closing brace that brace is its last
\* character.
T_CONSTANTS == "{\"constants\":{}"
T_EVENTS == ",\"events\":["
EV_A == "{\"a\":1}"
EV_B == "{\"b\":2}"
CUT_KEY == "{\"c\":"
CUT_NESTED == "{\"p\":{}"
WS == "\n"

\* The texts of events of a speed test: the requests of a hello, a download
\* and an upload URL (sources 1, 2, 4), a read on the download's source, and
\* an entry like that read which has no type field.
EV_HELLO == "{hello request}"
EV_DOWNLOAD == "{download request}"
EV_READ == "{download read}"
EV_UPLOAD == "{upload request}"
EV_UNTYPED == "{download read without type}"

EventTokens == {EV_A, EV_B, EV_HELLO, EV_DOWNLOAD, EV_READ, EV_UPLOAD, EV_UNTYPED}

\* The event that the text of an event stands for.
EventOf(tok) ==
    CASE tok = EV_HELLO ->
            Event(completeLogEventTypes.REQUEST_ALIVE, 1, 1,
                  Some("https://srv:8080/hello?nocache=b"), Null, Null, Null, Null)
      [] tok = EV_DOWNLOAD ->
            Event(completeLogEventTypes.REQUEST_ALIVE, 2, 1,
                  Some("https://srv:8080/download?nocache=a"), Null, Null, Null, Null)
      [] tok = EV_READ ->
            Event(completeLogEventTypes.URL_REQUEST_BYTES_READ, 2, 2, Null, Null,
                  Some(100), Null, Null)
      [] tok = EV_UNTYPED ->
            Event(undefined, 2, 2, Null, Null, Some(100), Null, Null)
      [] tok = EV_UPLOAD ->
            Event(completeLogEventTypes.REQUEST_ALIVE, 4, 1,
                  Some("https://srv:8080/upload?nocache=a"), Null, Null, Null, Null)
      [] OTHER -> ValueEntry

endsWithBrace(tok) == tok \in EventTokens \cup {"}", T_CONSTANTS, CUT_NESTED}

RECURSIVE trimStart(_)
trimStart(str) ==
    IF str # <<>> /\ Head(str) = WS THEN trimStart(Tail(str)) ELSE str

RECURSIVE trimEnd(_)
trimEnd(str) ==
    IF str # <<>> /\ str[Len(str)] = WS
    THEN trimEnd(SubSeq(str, 1, Len(str) - 1)) ELSE str

\* String.prototype.trim
trim(str) == trimEnd(trimStart(str))

\* str.endsWith(',')
endsWithComma(str) == str # <<>> /\ str[Len(str)] = ","

\* Mutant of dropLast: the trailing comma is kept.
dropLastOmitted(str) == str

\* str.slice(0, -1), applied to a text that ends with a comma.
dropLast(str) == SubSeq(str, 1, Len(str) - 1)

\* str.lastIndexOf('}') as the position of the piece that ends with the last
\* closing brace; 0 stands for JavaScript's -1.
lastIndexOfBrace(str) ==
    IF \E i \in DOMAIN str : endsWithBrace(str[i])
    THEN CHOOSE i \in DOMAIN str :
            /\ endsWithBrace(str[i])
            /\ \A j \in DOMAIN str : endsWithBrace(str[j]) => j <= i
    ELSE 0

\* The members of the events array: events separated by single commas.
isEventList(items) ==
    \/ items = <<>>
    \/ /\ Len(items) % 2 = 1
       /\ \A i \in DOMAIN items :
             IF i % 2 = 1 THEN items[i] \in EventTokens ELSE items[i] = ","

\* JSON.parse of a capture text: white space between the pieces is skipped;
\* the text must be the two openings, the event list and the two closings.
\* Null stands for the SyntaxError it throws otherwise.
JSONparse(str) ==
    LET t == SelectSeq(str, LAMBDA tok : tok # WS)
        n == Len(t)
    IN  IF /\ n >= 4
           /\ t[1] = T_CONSTANTS /\ t[2] = T_EVENTS
           /\ t[n - 1] = "]" /\ t[n] = "}"
           /\ isEventList(SubSeq(t, 3, n - 2))
        THEN Some([constants |-> t[1],
                   events |-> SelectSeq(SubSeq(t, 3, n - 2), LAMBDA tok : tok \in EventTokens)])
        ELSE Null

\* Mutant of attempt: the file is written before the repaired text is parsed.
attemptWritesFirst(fixedString, file) ==
    [thrown |-> JSONparse(fixedString) = Null,
     value |-> JSONparse(fixedString),
     file |-> fixedString]

\* One repair attempt: parse the repaired text, write it back when it parsed
\* (what a capture text parses to is an object, which is truthy).
attempt(fixedString, file) ==
    IF JSONparse(fixedString) = Null
    THEN [thrown |-> TRUE, value |-> Null, file |-> file]
    ELSE [thrown |-> FALSE, value |-> JSONparse(fixedString),
          file |-> fixedString]

\* fixAndParseJSON(jsonString, originalFilePath), file being the content of
\* originalFilePath: the value returned (Null for null) and the content left.
fixAndParseJSON(str, file) ==
    LET trimmed == trim(str)
        closing == <<"]", "}">>
        first == attempt(IF endsWithComma(trimmed)
                         THEN dropLast(trimmed) \o closing
                         ELSE trimmed \o closing, file)
        lastBraceIndex == lastIndexOfBrace(trimmed)
    IN  IF JSONparse(trimmed) # Null
        THEN [value |-> JSONparse(trimmed), file |-> file]
        ELSE IF ~first.thrown
        THEN [value |-> first.value, file |-> first.file]
        ELSE IF endsWithComma(trimmed)
        THEN LET second == attempt(trimmed \o closing, first.file)
             IN  [value |-> second.value, file |-> second.file]
        ELSE IF lastBraceIndex # 0
        THEN LET second == attempt(SubSeq(trimmed, 1, lastBraceIndex) \o closing,
                                   first.file)
             IN  [value |-> second.value, file |-> second.file]
        ELSE [value |-> Null, file |-> first.file]

\* A caller reads the capture file and hands its text to fixAndParseJSON.
Repair ==
    /\ pc = "repair"
    /\ LET r == fixAndParseJSON(jsonString, netlog)
       IN  /\ parsed' = r.value
           /\ netlog' = r.file
    /\ pc' = "repaired"
    /\ UNCHANGED <<passVars, socketVars, urlVars, logEventTypes, jsonString,
                   download_urls_json, upload_urls_json, mainVars>>

\* ------------------------------------------------------------------ filterUrls
RECURSIVE collectUrls(_, _)
\* events.forEach of collectUrlsFromNetlog: an entry whose source.id cannot
\* be read throws inside the try of its iteration and is skipped.
collectUrls(events, ul) ==
    IF events = <<>> THEN ul
    ELSE LET e == EventOf(Head(events))
         IN  collectUrls(Tail(events),
                         IF hasSource(e)
                         THEN collectUrl(UrlEvent(e.id, e.url, FALSE, Null), ul)
                         ELSE ul)

\* url_list.download.map(pair => pair[0])
firstOfPairs(list) == [i \in DOMAIN list |-> list[i][1]]

\* The content of a URL file: valid tells whether it is JSON with the four
\* lists.
UrlFile(download, upload, load, unload) ==
    [valid |-> TRUE, download |-> download, upload |-> upload,
     load |-> load, unload |-> unload]

\* A URL file whose content is not JSON.
corruptUrlFile == [UrlFile(<<>>, <<>>, <<>>, <<>>) EXCEPT !.valid = FALSE]

\* Mutant of writeIfAbsent: the file is written whether it exists or not.
writeAlways(existing, content) == Some(content)

\* if (!downloadUrlsExists) fs.writeFileSync(...): an existing file is kept.
writeIfAbsent(existing, content) ==
    IF existing = Null THEN Some(content) ELSE existing

\* filterUrls(netlogFilePath), called by main: captureTestMetadata parses
\* the file strictly and its SyntaxError reaches the catch of main, which
\* exits with 1; collectUrlsFromNetlog repairs and parses the file, and
\* exits with 1 when that gives null; the two URL files are written unless
\* they exist.
filterUrls ==
    /\ pc = "main"
    /\ IF JSONparse(netlog) = Null
       THEN /\ pc' = "exited"
            /\ exit_code' = Some(1)
            /\ UNCHANGED <<url_list, latency_urls, fileVars>>
       ELSE LET r == fixAndParseJSON(netlog, netlog)
            IN  IF r.value = Null
                THEN /\ pc' = "exited"
                     /\ exit_code' = Some(1)
                     /\ UNCHANGED <<url_list, latency_urls, fileVars>>
                ELSE LET ul == collectUrls(Val(r.value).events, emptyUrlList)
                         lu == separateHelloUrlsByTiming(ul)
                     IN  /\ url_list' = ul
                         /\ latency_urls' = lu
                         /\ jsonString' = netlog
                         /\ netlog' = r.file
                         /\ parsed' = r.value
                         /\ download_urls_json' =
                              writeIfAbsent(download_urls_json,
                                  UrlFile(firstOfPairs(ul.download), <<>>,
                                          lu.download.load, lu.download.unload))
                         /\ upload_urls_json' =
                              writeIfAbsent(upload_urls_json,
                                  UrlFile(<<>>, firstOfPairs(ul.upload),
                                          lu.upload.load, lu.upload.unload))
                         /\ pc' = "urls"
                         /\ UNCHANGED <<logEventTypes, exit_code>>
    /\ UNCHANGED <<passVars, socketVars, filterMode, steps>>

\* ------------------------------------------------------- processNetlogFile
emptyPool ==
    [streams |-> <<>>,
     latency_ms |-> [count_rtt |-> 0, mean_rtt |-> 0, median_rtt |-> 0]]

emptyLatencyData ==
    [test_latency |-> emptyPool, unloaded_latency |-> emptyPool,
     loaded_latency |-> emptyPool]

\* The state of processNetlogFile before the first event, for a URL list
\* that splitTestTypeUrls has split into direction and fragments.
InitRun(tt, urls, unloaded, loaded) ==
    /\ pc = "pass"
    /\ log = <<>>
    /\ testType = tt
    /\ split_urls = urls
    /\ split_unloaded_urls = unloaded
    /\ split_loaded_urls = loaded
    /\ results = <<>>
    /\ byte_time_list = <<>>
    /\ current_position_list = <<>>
    /\ latency_data = emptyLatencyData
    /\ http_stream_job_ids = <<>>
    /\ socketIds = <<>>
    /\ stage_errors = {}
    /\ url_list = emptyUrlList
    /\ latency_urls = emptyLatencyUrls
    /\ NoFiles

\* Check #1 throws a TypeError: the entry is null (null.hasOwnProperty), or
\* the opening condition holds and eventData.source is missing.
openingCheckThrows(e, urls) ==
    \/ e.form = "null"
    \/ openingCheck(e, urls) /\ ~hasSource(e)

\* Check #2 throws a TypeError: results.some calls its predicate, which reads
\* eventData.source.id, and eventData.source is missing.
recognizedCheckThrows(e, res) ==
    res # <<>> /\ ~hasSource(e)

\* Mutant of latencyCheckThrows: a missing source is tolerated (source?.id).
latencyCheckNeverThrows(e, streams, urls) == FALSE

\* A latency check throws a TypeError: eventData.source is missing and either
\* captureLatencyData is called for a send event or streams.some calls its
\* predicate for a receive event; either way before the pool is changed.
latencyCheckThrows(e, streams, urls) ==
    /\ hasParams(e) /\ Len(urls) > 0 /\ ~hasSource(e)
    /\ \/ /\ e.type = logEvent_ids("HTTP_TRANSACTION_SEND_REQUEST_HEADERS")
          /\ e.line # Null
          /\ \E i \in DOMAIN urls : Includes(Val(e.line), urls[i])
       \/ /\ e.type = logEvent_ids("HTTP_TRANSACTION_READ_RESPONSE_HEADERS")
          /\ streams # <<>>

\* The body of events.forEach for the entry e at position index, from the
\* collections st: checks #1 to #5 inside try, where a TypeError ends the
\* iteration and leaves what the earlier checks have done (catch logs only).
forEachBody(e, index, st) ==
    IF openingCheckThrows(e, split_urls) THEN st
    ELSE
    LET recognized ==
            IF openingCheck(e, split_urls)
            THEN Append(st.results, [sourceID |-> e.id, index |-> index])
            ELSE st.results
        st1 == [st EXCEPT !.results = recognized]
    IN
    IF recognizedCheckThrows(e, recognized) THEN st1
    ELSE
    LET captured ==
            IF isRecognized(recognized, e.id)
            THEN captureBytecountData(e, recognized, st.byte_time_list,
                                      st.current_position_list, testType)
            ELSE [byte_time_list |-> st.byte_time_list,
                  current_position_list |-> st.current_position_list]
        st2 == [st1 EXCEPT
                  !.byte_time_list = captured.byte_time_list,
                  !.current_position_list = captured.current_position_list]
    IN
    IF latencyCheckThrows(e, st.latency_data.unloaded_latency.streams,
                          split_unloaded_urls)
    THEN st2
    ELSE
    LET st3 == [st2 EXCEPT !.latency_data.unloaded_latency.streams =
                              latencyCheck(e, @, split_unloaded_urls)]
    IN
    IF latencyCheckThrows(e, st.latency_data.loaded_latency.streams,
                          split_loaded_urls)
    THEN st3
    ELSE
    LET st4 == [st3 EXCEPT !.latency_data.loaded_latency.streams =
                              latencyCheck(e, @, split_loaded_urls)]
    IN
    IF latencyCheckThrows(e, st.latency_data.test_latency.streams, split_urls)
    THEN st4
    ELSE [st4 EXCEPT !.latency_data.test_latency.streams =
                        latencyCheck(e, @, split_urls)]

\* One iteration of events.forEach: checks #1 to #5 on the next entry.
ProcessEvent(e) ==
    /\ pc = "pass"
    /\ Len(log) < MaxEvents
    /\ LET st == forEachBody(e, Len(log),
                     [results |-> results,
                      byte_time_list |-> byte_time_list,
                      current_position_list |-> current_position_list,
                      latency_data |-> latency_data])
       IN  /\ results' = st.results
           /\ byte_time_list' = st.byte_time_list
           /\ current_position_list' = st.current_position_list
           /\ latency_data' = st.latency_data
    /\ log' = Append(log, e)
    /\ UNCHANGED <<pc, testType, split_urls, split_unloaded_urls,
                   split_loaded_urls, socketVars, urlVars, fileVars, mainVars>>

\* After the last event: the statistics are computed and the stream lists and
\* latency_data.json are written.
EndPass ==
    /\ pc = "pass"
    /\ latency_data' = updateAllLatencyStatistics(latency_data)
    /\ pc' = "written"
    /\ UNCHANGED <<log, testType, split_urls, split_unloaded_urls,
                   split_loaded_urls, results, byte_time_list,
                   current_position_list, socketVars, urlVars, fileVars,
                   mainVars>>

\* -------------------------------------------- throughput specification
Ids == 1 .. MaxId
Times == 1 .. MaxTime

\* Events of a download pass: requests with a target or a foreign URL, a
\* non-request event carrying a target URL, read events with and without a
\* byte count, and an upload read event.
DownloadEvents ==
    {Event(completeLogEventTypes.REQUEST_ALIVE, id, 1, Some(u), Null, Null, Null, Null) :
        id \in Ids,
        u \in {"https://srv:8080/download?nocache=a", "https://ads.example/pixel"}}
    \cup
    {Event(completeLogEventTypes.URL_REQUEST_JOB_FILTERED_BYTES_READ, id, 1,
           Some("https://srv:8080/download?nocache=a"), Null, Null, Null, Null) :
        id \in Ids}
    \cup
    {Event(completeLogEventTypes.URL_REQUEST_JOB_FILTERED_BYTES_READ, id, t,
           Null, Null, Some(100 * t), Null, Null) :
        id \in Ids, t \in Times}
    \cup
    {Event(completeLogEventTypes.URL_REQUEST_BYTES_READ, id, 1, Null, Null, bc, Null, Null) :
        id \in Ids, bc \in {Null, Some(50)}}
    \cup
    {Event(completeLogEventTypes.UPLOAD_DATA_STREAM_READ, id, 1, Null, Null, Null,
           Some(100), Null) :
        id \in Ids}

\* Events of an upload pass: requests with a target or a foreign URL, upload
\* read events with and without a position, and a download read event.
UploadEvents ==
    {Event(completeLogEventTypes.REQUEST_ALIVE, id, 1, Some(u), Null, Null, Null, Null) :
        id \in Ids,
        u \in {"https://srv:8080/upload?nocache=a", "https://ads.example/pixel"}}
    \cup
    {Event(completeLogEventTypes.UPLOAD_DATA_STREAM_READ, id, t, Null, Null, Null,
           Some(100 * t), Null) :
        id \in Ids, t \in Times}
    \cup
    {Event(completeLogEventTypes.UPLOAD_DATA_STREAM_READ, id, 1, Null, Null, Null,
           Null, Null) :
        id \in Ids}
    \cup
    {Event(completeLogEventTypes.URL_REQUEST_BYTES_READ, id, 1, Null, Null, Some(50),
           Null, Null) :
        id \in Ids}

TputEvents == IF testType = "download" THEN DownloadEvents ELSE UploadEvents

InitTput ==
    \/ InitRun("download", <<"download?nocache=a">>, <<>>, <<>>)
    \/ InitRun("upload", <<"upload?nocache=a">>, <<>>, <<>>)

NextTput ==
    \/ \E e \in TputEvents : ProcessEvent(e)
    \/ EndPass

SpecTput == InitTput /\ [][NextTput]_vars

\* ======================================================= throughput claims
\* The event at position i of the processed prefix passes the opening check:
\* it has params.url containing a target fragment and the REQUEST_ALIVE type.
IsOpeningAt(i) ==
    /\ log[i].url # Null
    /\ log[i].type = logEvent_ids("REQUEST_ALIVE")
    /\ \E k \in DOMAIN split_urls : split_urls[k] \in FragmentsOf(Val(log[i].url))

AllRecords ==
    {byte_time_list[i] : i \in DOMAIN byte_time_list}
        \cup {current_position_list[i] : i \in DOMAIN current_position_list}

\* C1: after any prefix of the events, every record of byte_time_list and
\* current_position_list has the source id of an opening event of that
\* prefix; no record exists for an id without an opening event.
C1_RecordsHaveOpeningEvent ==
    \A rec \in AllRecords :
        \E i \in DOMAIN log : log[i].id = rec.id /\ IsOpeningAt(i)

\* A read event that qualifies for the run's direction.
IsProgressEvent(e) ==
    IF testType = "download"
    THEN /\ e.type \in {logEvent_ids("URL_REQUEST_JOB_FILTERED_BYTES_READ"),
                       logEvent_ids("URL_REQUEST_BYTES_READ")}
         /\ e.byte_count # Null
    ELSE /\ e.type = logEvent_ids("UPLOAD_DATA_STREAM_READ")
         /\ e.current_position # Null

\* C1 witness: a record exists while a qualifying read event of a source
\* that never had an opening event was processed and left no record.
C1_Witness ==
    /\ AllRecords # {}
    /\ \E i \in DOMAIN log :
          /\ IsProgressEvent(log[i])
          /\ \A j \in DOMAIN log : log[j].id = log[i].id => ~IsOpeningAt(j)

\* The progress entry an event contributes.
EntryOf(e) ==
    IF testType = "download"
    THEN [bytecount |-> Val(e.byte_count), time |-> e.time]
    ELSE [current_position |-> Val(e.current_position), time |-> e.time]

\* The qualifying events of source id in capture order, from the first
\* opening event of that id on, as progress entries.
ExpectedProgress(id) ==
    IF \E i \in DOMAIN log : log[i].id = id /\ IsOpeningAt(i)
    THEN LET first == CHOOSE i \in DOMAIN log :
                         /\ log[i].id = id /\ IsOpeningAt(i)
                         /\ \A j \in DOMAIN log :
                               (log[j].id = id /\ IsOpeningAt(j)) => i <= j
             Qualifies(e) == e.id = id /\ IsProgressEvent(e)
             sel == SelectSeq(SubSeq(log, first, Len(log)), Qualifies)
         IN  [k \in 1 .. Len(sel) |-> EntryOf(sel[k])]
    ELSE <<>>

ActiveList == IF testType = "download" THEN byte_time_list ELSE current_position_list
IdleList == IF testType = "download" THEN current_position_list ELSE byte_time_list

\* Each id with qualifying events has exactly one record, holding them in
\* capture order; other ids have none.
ProgressIsCaptureOrder ==
    /\ IdleList = <<>>
    /\ \A id \in 1 .. MaxId :
          IF ExpectedProgress(id) = <<>>
          THEN \A k \in DOMAIN ActiveList : ActiveList[k].id # id
          ELSE /\ Cardinality({k \in DOMAIN ActiveList : ActiveList[k].id = id}) = 1
               /\ \A k \in DOMAIN ActiveList :
                     ActiveList[k].id = id
                        => ActiveList[k].progress = ExpectedProgress(id)

IsPrefix(s, t) == Len(s) <= Len(t) /\ SubSeq(t, 1, Len(s)) = s

\* new is old with one entry appended to one record, the record appended to
\* the list when its id had none.
OneEntryAppended(old, new) ==
    \/ /\ Len(new) = Len(old)
       /\ \E k \in DOMAIN old :
             /\ new[k].id = old[k].id
             /\ new[k].type = old[k].type
             /\ Len(new[k].progress) = Len(old[k].progress) + 1
             /\ IsPrefix(old[k].progress, new[k].progress)
             /\ \A j \in DOMAIN old : j # k => new[j] = old[j]
    \/ /\ Len(new) = Len(old) + 1
       /\ IsPrefix(old, new)
       /\ Len(new[Len(new)].progress) = 1
       /\ \A j \in DOMAIN old : old[j].id # new[Len(new)].id

AppendOnlyStep ==
    \/ /\ byte_time_list' = byte_time_list
       /\ current_position_list' = current_position_list
    \/ /\ current_position_list' = current_position_list
       /\ OneEntryAppended(byte_time_list, byte_time_list')
    \/ /\ byte_time_list' = byte_time_list
       /\ OneEntryAppended(current_position_list, current_position_list')

\* C5: the throughput series is append-only and keeps arrival order: a step
\* leaves both lists unchanged or appends one entry at the end of one record
\* (created first when the id had none), and each record's progress is the
\* capture-order subsequence of its id's qualifying events since the id was
\* recognized.
C5_AppendOnlyCaptureOrder ==
    [][AppendOnlyStep]_vars /\ []ProgressIsCaptureOrder

\* C5 witness: a record that received two different entries, one after the other.
C5_Witness ==
    /\ Len(ActiveList) = 1
    /\ Len(ActiveList[1].progress) = 2
    /\ ActiveList[1].progress[1] # ActiveList[1].progress[2]

TimeOrdered(progress) ==
    \A i, j \in DOMAIN progress : i < j => progress[i].time <= progress[j].time

LogTimeOrdered ==
    \A i, j \in DOMAIN log : i < j => log[i].time <= log[j].time

C21_RecognizedSourcesAreDistinct ==
    \A i, j \in DOMAIN results :
        results[i].sourceID = results[j].sourceID => i = j

\* ------------------------------------------------ latency specification
\* Events of the latency pass: request-header events whose line holds a
\* payload fragment, a hello fragment or neither, and response-header events.
LatencyEvents ==
    {Event(completeLogEventTypes.HTTP_TRANSACTION_SEND_REQUEST_HEADERS, id, t, Null,
           Some(line), Null, Null, Null) :
        id \in Ids, t \in Times,
        line \in {"GET /download?nocache=a HTTP/1.1",
                  "GET /hello?nocache=b HTTP/1.1"}}
    \cup
    {Event(completeLogEventTypes.HTTP_TRANSACTION_SEND_REQUEST_HEADERS, id, 1, Null,
           Some("GET /favicon.ico HTTP/1.1"), Null, Null, Null) :
        id \in Ids}
    \cup
    {Event(completeLogEventTypes.HTTP_TRANSACTION_READ_RESPONSE_HEADERS, id, t, Null,
           Null, Null, Null, Null) :
        id \in Ids, t \in Times}

InitLat ==
    InitRun("download", <<"download?nocache=a">>, <<"hello?nocache=b">>, <<>>)

NextLat ==
    \/ \E e \in LatencyEvents : ProcessEvent(e)
    \/ EndPass

SpecLat == InitLat /\ [][NextLat]_vars

Pools == {latency_data.test_latency, latency_data.unloaded_latency,
          latency_data.loaded_latency}

\* C2: in every state of a latency pool being built, each stream whose
\* send_time and recv_time are both set has rtt = recv_time - send_time.
C2_RttIsRecvMinusSend ==
    \A pool \in Pools : \A i \in DOMAIN pool.streams :
        LET st == pool.streams[i]
        IN  (st.send_time # Null /\ st.recv_time # Null)
               => st.rtt = Some(Val(st.recv_time) - Val(st.send_time))

LatencyClasses == {"test_latency", "unloaded_latency", "loaded_latency"}

\* The target fragments of a latency pool.
UrlsOf(class) ==
    CASE class = "test_latency" -> split_urls
      [] class = "unloaded_latency" -> split_unloaded_urls
      [] class = "loaded_latency" -> split_loaded_urls

\* A send event whose line matches a target fragment of the pool.
IsMatchingSend(e, class) ==
    /\ e.type = logEvent_ids("HTTP_TRANSACTION_SEND_REQUEST_HEADERS")
    /\ e.line # Null
    /\ \E i \in DOMAIN UrlsOf(class) : UrlsOf(class)[i] \in FragmentsOf(Val(e.line))

IsReceive(e) == e.type = logEvent_ids("HTTP_TRANSACTION_READ_RESPONSE_HEADERS")

\* The positions of the matching send events of source id, and of its
\* receive events after the first of them (after the stream was created).
SendsOf(id, class) ==
    {i \in DOMAIN log : log[i].id = id /\ IsMatchingSend(log[i], class)}

Max(S) == CHOOSE x \in S : \A y \in S : y <= x
Min(S) == CHOOSE x \in S : \A y \in S : x <= y

ReceivesOf(id, class) ==
    {j \in DOMAIN log :
        /\ log[j].id = id /\ IsReceive(log[j])
        /\ SendsOf(id, class) # {} /\ j > Min(SendsOf(id, class))}

\* A step that processes a receive event whose source has no stream in a
\* pool leaves that pool as it was.
ReceiveWithoutStreamKeepsPool ==
    (Len(log') = Len(log) + 1 /\ IsReceive(log'[Len(log')])) =>
        \A class \in LatencyClasses :
            (\A i \in DOMAIN latency_data[class].streams :
                latency_data[class].streams[i].id # log'[Len(log')].id)
            => latency_data'[class] = latency_data[class]

\* Every stream of a pool has a matching send event in the processed prefix,
\* and a receive time is that of a receive event after the first of them.
StreamsCreatedBySend ==
    \A class \in LatencyClasses :
        \A i \in DOMAIN latency_data[class].streams :
            LET st == latency_data[class].streams[i]
            IN  /\ SendsOf(st.id, class) # {}
                /\ st.recv_time # Null =>
                      \E j \in ReceivesOf(st.id, class) :
                          st.recv_time = Some(log[j].time)

\* C25: a HTTP_TRANSACTION_READ_RESPONSE_HEADERS event whose source id has no
\* stream in a latency pool leaves that pool unchanged, so every stream of a
\* pool was created by a HTTP_TRANSACTION_SEND_REQUEST_HEADERS event with a
\* matching line earlier in the capture, and a receive that precedes its
\* send is never paired.
C25_ReceiveBeforeSendIsIgnored ==
    [][ReceiveWithoutStreamKeepsPool]_vars /\ []StreamsCreatedBySend

\* A receive event of source 1 came first and was ignored; the hello request
\* of source 1 and a second receive event, at another time, were paired.
C25_Witness ==
    /\ Len(log) = 3
    /\ IsReceive(log[1]) /\ log[1].id = 1
    /\ IsMatchingSend(log[2], "unloaded_latency") /\ log[2].id = 1
    /\ IsReceive(log[3]) /\ log[3].id = 1 /\ log[3].time # log[1].time
    /\ Len(latency_data.unloaded_latency.streams) = 1
    /\ latency_data.unloaded_latency.streams[1].recv_time = Some(log[3].time)

\* C26: latency pairing is last-value-wins: at the end of the pass the
\* send_time of each stream is the time of the last send event of its source
\* whose line matches a target fragment of the pool, and its recv_time is the
\* time of the last receive event of its source after the stream was
\* created, null if there is none.
C26_LastValueWins ==
    pc = "written" =>
        \A class \in LatencyClasses :
            \A i \in DOMAIN latency_data[class].streams :
                LET st == latency_data[class].streams[i]
                    sends == SendsOf(st.id, class)
                    receives == ReceivesOf(st.id, class)
                IN  /\ sends # {}
                    /\ st.send_time = Some(log[Max(sends)].time)
                    /\ st.recv_time = IF receives = {} THEN Null
                                      ELSE Some(log[Max(receives)].time)

\* The pass has ended over two requests of one source at different times
\* and a response: the stream holds the time of the second request.
C26_Witness ==
    /\ pc = "written"
    /\ Len(log) = 3
    /\ IsMatchingSend(log[1], "test_latency")
    /\ IsMatchingSend(log[2], "test_latency")
    /\ log[2].id = log[1].id /\ log[2].time # log[1].time
    /\ IsReceive(log[3]) /\ log[3].id = log[1].id
    /\ Len(latency_data.test_latency.streams) = 1
    /\ latency_data.test_latency.streams[1].send_time = Some(log[2].time)
    /\ latency_data.test_latency.streams[1].recv_time = Some(log[3].time)

\* ---------------------------------------------- statistics specification
\* Sample round-trip times of a pool: none yet, negative, zero, positive.
RttSamples == {Null, Some(-10), Some(0), Some(10), Some(20), Some(30), Some(40)}

\* A pool as the event pass leaves it: stream i sent at 100 and, when it has
\* a round-trip time, received at 100 + rtt.
PoolOf(rtts) ==
    [i \in DOMAIN rtts |->
        [id |-> i, send_time |-> Some(100),
         recv_time |-> IF rtts[i] = Null THEN Null ELSE Some(100 + Val(rtts[i])),
         rtt |-> rtts[i]]]

InitStats ==
    \E n \in 0 .. MaxStreams : \E rtts \in [1 .. n -> RttSamples] :
        /\ pc = "pass"
        /\ log = <<>>
        /\ testType = "download"
        /\ split_urls = <<"download?nocache=a">>
        /\ split_unloaded_urls = <<>>
        /\ split_loaded_urls = <<>>
        /\ results = <<>>
        /\ byte_time_list = <<>>
        /\ current_position_list = <<>>
        /\ latency_data =
             [emptyLatencyData EXCEPT !.test_latency.streams = PoolOf(rtts)]
        /\ http_stream_job_ids = <<>>
        /\ socketIds = <<>>
        /\ stage_errors = {}
        /\ url_list = emptyUrlList
        /\ latency_urls = emptyLatencyUrls
        /\ NoFiles

NextStats == EndPass

SpecStats == InitStats /\ [][NextStats]_vars

TestStreams == latency_data.test_latency.streams
TestStats == latency_data.test_latency.latency_ms

\* The streams that count: rtt set and not negative.
ValidIdx ==
    {i \in DOMAIN TestStreams :
        TestStreams[i].rtt # Null /\ Val(TestStreams[i].rtt) >= 0}

RttAt(i) == Val(TestStreams[i].rtt)

RECURSIVE SumOver(_)
SumOver(I) ==
    IF I = {} THEN 0
    ELSE LET i == CHOOSE j \in I : TRUE IN RttAt(i) + SumOver(I \ {i})

\* m is 100 times the mean of the rtts of I, rounded to the nearest integer
\* (a tie upwards).
IsRoundedMean(m, I) ==
    LET n == Cardinality(I)
    IN  /\ 2 * n * m - n <= 200 * SumOver(I)
        /\ 200 * SumOver(I) < 2 * n * m + n

\* The k-th smallest rtt of I (k = 1 the smallest), by rank.
KthSmallest(I, k) ==
    LET x == CHOOSE i \in I :
                /\ Cardinality({j \in I : RttAt(j) < RttAt(i)}) < k
                /\ k <= Cardinality({j \in I : RttAt(j) <= RttAt(i)})
    IN  RttAt(x)

\* 100 times the median of the rtts of I: the middle one of an odd number,
\* the average of the two middle ones of an even number.
MedianHundredths(I) ==
    LET n == Cardinality(I)
    IN  IF n % 2 = 1
        THEN 100 * KthSmallest(I, (n + 1) \div 2)
        ELSE 50 * (KthSmallest(I, n \div 2) + KthSmallest(I, n \div 2 + 1))

StreamsKept ==
    latency_data'.test_latency.streams = latency_data.test_latency.streams

StatsAreOverValidStreams ==
    pc = "written" =>
        /\ TestStats.count_rtt = Cardinality(ValidIdx)
        /\ ValidIdx = {} => (TestStats.mean_rtt = 0 /\ TestStats.median_rtt = 0)
        /\ ValidIdx # {} =>
              /\ IsRoundedMean(TestStats.mean_rtt, ValidIdx)
              /\ TestStats.median_rtt = MedianHundredths(ValidIdx)

\* C3: the statistics cover exactly the streams with rtt set and >= 0:
\* count_rtt is their number, mean and median are taken over them alone, the
\* streams themselves are left as stored, and with no such stream the result
\* is count 0, mean 0, median 0.
C3_StatsOverValidOnly ==
    []StatsAreOverValidStreams /\ [][StreamsKept]_vars

\* C3 witness: statistics computed over a pool holding a stream without rtt,
\* one with a negative rtt and a counted one.
C3_Witness ==
    /\ pc = "written"
    /\ \E i, j, k \in DOMAIN TestStreams :
          /\ TestStreams[i].rtt = Null
          /\ TestStreams[j].rtt # Null /\ Val(TestStreams[j].rtt) < 0
          /\ k \in ValidIdx
    /\ TestStats.count_rtt = Cardinality(ValidIdx)

RttsOf(streams) == [i \in DOMAIN streams |-> streams[i].rtt]

Reorderings(n) ==
    {f \in [1 .. n -> 1 .. n] : \A i, j \in 1 .. n : f[i] = f[j] => i = j}

\* C4: for a non-empty list of valid rtts, mean_rtt is the arithmetic mean
\* and median_rtt the middle element (odd count) or the average of the two
\* middle elements (even count) of the sorted list, rounded to 2 decimals,
\* whatever the order of the streams; [10,20,30] gives count 3, mean 20,
\* median 20 and [10,20,30,40] gives median 25.
C4_MeanMedianOfValidRtts ==
    (pc = "written" /\ TestStreams # <<>> /\ ValidIdx = DOMAIN TestStreams) =>
        /\ TestStats.count_rtt = Len(TestStreams)
        /\ IsRoundedMean(TestStats.mean_rtt, DOMAIN TestStreams)
        /\ TestStats.median_rtt = MedianHundredths(DOMAIN TestStreams)
        /\ \A f \in Reorderings(Len(TestStreams)) :
              calculateLatencyStatistics(
                  [i \in DOMAIN TestStreams |-> TestStreams[f[i]]]) = TestStats
        /\ RttsOf(TestStreams) = <<Some(10), Some(20), Some(30)>> =>
              TestStats = [count_rtt |-> 3, mean_rtt |-> 2000, median_rtt |-> 2000]
        /\ RttsOf(TestStreams) = <<Some(10), Some(20), Some(30), Some(40)>> =>
              TestStats.median_rtt = 2500

\* C4 witness: statistics of the rtts 30, 10, 40, 20, listed out of order.
C4_Witness ==
    /\ pc = "written"
    /\ RttsOf(TestStreams) = <<Some(30), Some(10), Some(40), Some(20)>>
    /\ TestStats = [count_rtt |-> 4, mean_rtt |-> 2500, median_rtt |-> 2500]

\* ----------------------------------------------- socket-chain specification
\* Source ids of http streams, of stream jobs and of sockets.  With more
\* streams the stream ids run into the job ids.
StreamIds == {4 + i : i \in 1 .. MaxId}
JobIds == {7, 8}
SocketIds == {9, 10}

\* Binding events of a capture: stream-to-job events with and without a
\* dependency, and socket events of jobs and of a stream, with and without
\* a dependency.
SocketChainEvents ==
    {Event(completeLogEventTypes.HTTP_STREAM_REQUEST_BOUND_TO_JOB, h, 1, Null, Null,
           Null, Null, Some(j)) : h \in StreamIds, j \in JobIds}
    \cup
    {Event(completeLogEventTypes.HTTP_STREAM_REQUEST_BOUND_TO_JOB, 5, 1, Null, Null,
           Null, Null, Null)}
    \cup
    {Event(completeLogEventTypes.SOCKET_POOL_BOUND_TO_SOCKET, j, 1, Null, Null,
           Null, Null, dep) :
        j \in JobIds \cup {5}, dep \in {Null} \cup {Some(x) : x \in SocketIds}}

Captures == UNION {[1 .. n -> SocketChainEvents] : n \in 0 .. MaxEvents}

\* The events that make stream 4 + i a recognized stream with one progress
\* entry: its request and one read event.
StreamEvents(i, tt) ==
    IF tt = "upload"
    THEN <<Event(completeLogEventTypes.REQUEST_ALIVE, 4 + i, 1,
                 Some("https://srv:8080/upload?nocache=a"), Null, Null, Null, Null),
           Event(completeLogEventTypes.UPLOAD_DATA_STREAM_READ, 4 + i, 1, Null, Null,
                 Null, Some(100), Null)>>
    ELSE <<Event(completeLogEventTypes.REQUEST_ALIVE, 4 + i, 1,
                 Some("https://srv:8080/download?nocache=a"), Null, Null, Null, Null),
           Event(completeLogEventTypes.URL_REQUEST_BYTES_READ, 4 + i, 1, Null, Null,
                 Some(100), Null, Null)>>

RECURSIVE StreamPrefix(_, _)
StreamPrefix(k, tt) ==
    IF k = 0 THEN <<>> ELSE StreamPrefix(k - 1, tt) \o StreamEvents(k, tt)

\* The stream list the event pass writes for the first k streams.
StreamListOf(k, tt) ==
    [i \in 1 .. k |->
        [id |-> 4 + i, type |-> tt,
         progress |-> IF tt = "upload"
                      THEN <<[current_position |-> 100, time |-> 1]>>
                      ELSE <<[bytecount |-> 100, time |-> 1]>>]]

\* The run after its event pass over a capture that holds the events of k
\* streams followed by binding events: the stream list and the latency data
\* are written, the capture is about to be read again by the two stages.
InitSock ==
    \E tt \in {"download", "upload"}, k \in 0 .. MaxId, capture \in Captures :
        /\ pc = "written"
        /\ log = StreamPrefix(k, tt) \o capture
        /\ testType = tt
        /\ split_urls = IF tt = "upload" THEN <<"upload?nocache=a">>
                                         ELSE <<"download?nocache=a">>
        /\ split_unloaded_urls = <<>>
        /\ split_loaded_urls = <<>>
        /\ results = [i \in 1 .. k |-> [sourceID |-> 4 + i, index |-> 2 * (i - 1)]]
        /\ byte_time_list = IF tt = "download" THEN StreamListOf(k, tt) ELSE <<>>
        /\ current_position_list = IF tt = "upload" THEN StreamListOf(k, tt) ELSE <<>>
        /\ latency_data = emptyLatencyData
        /\ http_stream_job_ids = <<>>
        /\ socketIds = <<>>
        /\ stage_errors = {}
        /\ url_list = emptyUrlList
        /\ latency_urls = emptyLatencyUrls
        /\ NoFiles

NextSock == processHttpStreamJobIds \/ processSocketIds

SpecSock == InitSock /\ [][NextSock]_vars

\* A socket event that stage 2 has to answer: SOCKET_POOL_BOUND_TO_SOCKET
\* with a source_dependency, its source the job id of some stage-1 pair.
IsBoundSocketEvent(e) ==
    /\ e.type = logEvent_ids("SOCKET_POOL_BOUND_TO_SOCKET")
    /\ e.source_dependency # Null
    /\ \E p \in DOMAIN http_stream_job_ids : http_stream_job_ids[p][2] = e.id

IsBindingEvent(e) ==
    e.type \in {logEvent_ids("HTTP_STREAM_REQUEST_BOUND_TO_JOB"),
                logEvent_ids("SOCKET_POOL_BOUND_TO_SOCKET")}

\* The binding events of the capture are those of the example:
\* HTTP_STREAM_REQUEST_BOUND_TO_JOB(5 -> 7), SOCKET_POOL_BOUND_TO_SOCKET(7 -> 9).
IsExampleCapture ==
    LET binding == SelectSeq(log, IsBindingEvent)
    IN  /\ Len(binding) = 2
        /\ binding[1].type = logEvent_ids("HTTP_STREAM_REQUEST_BOUND_TO_JOB")
        /\ binding[1].id = 5 /\ binding[1].source_dependency = Some(7)
        /\ binding[2].type = logEvent_ids("SOCKET_POOL_BOUND_TO_SOCKET")
        /\ binding[2].id = 7 /\ binding[2].source_dependency = Some(9)

C8_EveryStreamHasAnEntry ==
    pc = "done" =>
        \A p \in DOMAIN http_stream_job_ids :
            (\E i \in DOMAIN log :
                /\ log[i].type = logEvent_ids("SOCKET_POOL_BOUND_TO_SOCKET")
                /\ log[i].source_dependency # Null
                /\ log[i].id = http_stream_job_ids[p][2])
            => \E t \in DOMAIN socketIds :
                  socketIds[t][1] = http_stream_job_ids[p][1]

\* A stream-to-job event that stage 1 has to answer: HTTP_STREAM_REQUEST_BOUND_TO_JOB
\* with a source_dependency, its source the id of a record of the stream list.
IsBoundJobEvent(e) ==
    /\ e.type = logEvent_ids("HTTP_STREAM_REQUEST_BOUND_TO_JOB")
    /\ e.source_dependency # Null
    /\ \E rec \in AllRecords : rec.id = e.id

\* C22: processHttpStreamJobIds outputs at most one pair per http stream id;
\* when several HTTP_STREAM_REQUEST_BOUND_TO_JOB events occur for the same
\* recognized source id, the single pair of that id carries the dependency
\* id of the last such event in the capture.
C22_OnePairPerStreamLastWins ==
    pc \in {"jobs", "done"} =>
        LET bound == SelectSeq(log, IsBoundJobEvent)
        IN  /\ \A p, q \in DOMAIN http_stream_job_ids :
                  http_stream_job_ids[p][1] = http_stream_job_ids[q][1] => p = q
            /\ \A p \in DOMAIN http_stream_job_ids :
                  \E k \in DOMAIN bound :
                      /\ bound[k].id = http_stream_job_ids[p][1]
                      /\ Val(bound[k].source_dependency) = http_stream_job_ids[p][2]
                      /\ \A m \in DOMAIN bound : bound[m].id = bound[k].id => m <= k

\* C29: the socket chain is closed over this run's streams: the first
\* element of every pair of httpStreamJobIds.json is the id of a record of
\* the stream list the run has written for its direction, hence a recognized
\* source, and the first two elements of every triple of socketIds.json form
\* a pair of httpStreamJobIds.json.
C29_ChainClosedOverStreams ==
    /\ pc \in {"jobs", "done"} =>
          \A p \in DOMAIN http_stream_job_ids :
              /\ \E r \in DOMAIN ActiveList :
                    ActiveList[r].id = http_stream_job_ids[p][1]
              /\ isRecognized(results, http_stream_job_ids[p][1])
    /\ pc = "done" =>
          \A t \in DOMAIN socketIds :
              \E p \in DOMAIN http_stream_job_ids :
                  http_stream_job_ids[p] = <<socketIds[t][1], socketIds[t][2]>>

\* The chain of stream 5 was resolved in a capture that also binds a stream
\* without a record to a job: that stream has no pair.
C29_Witness ==
    /\ pc = "done"
    /\ http_stream_job_ids = << <<5, 7>> >>
    /\ socketIds = << <<5, 7, 9>> >>
    /\ \E i \in DOMAIN log :
          /\ log[i].type = logEvent_ids("HTTP_STREAM_REQUEST_BOUND_TO_JOB")
          /\ log[i].source_dependency # Null
          /\ \A rec \in AllRecords : rec.id # log[i].id

\* ------------------------------------------------------- the RABBITS filter
\* The filter of the RABBITS toolkit has the two stages of its own; it does
\* not read the symbol table of the capture but compares with the codes of
\* EVENT_TYPES, and in stage 2 with a literal.
EVENT_TYPES ==
    [HTTP_STREAM_REQUEST_BOUND_TO_JOB |-> 171, SOCKET_POOL_BOUND_TO_SOCKET |-> 112]

RECURSIVE rabbitsJobPairs(_, _)
\* The events.forEach of the RABBITS processHttpStreamJobIds.
rabbitsJobPairs(capture, list) ==
    IF capture = <<>> THEN <<>>
    ELSE LET e == Head(capture)
         IN  IF jobCheckThrows(e) THEN <<>>
             ELSE (IF /\ e.type = EVENT_TYPES.HTTP_STREAM_REQUEST_BOUND_TO_JOB
                      /\ e.source_dependency # Null
                      /\ listIncludes(list, e)
                   THEN << <<e.id, Val(e.source_dependency)>> >>
                   ELSE <<>>)
                  \o rabbitsJobPairs(Tail(capture), list)

\* The condition of the RABBITS stage 2 throws a TypeError.
rabbitsSocketCheckThrows(e) ==
    \/ e.form = "null"
    \/ /\ hasParams(e) /\ e.source_dependency # Null /\ e.type = 114
       /\ ~hasSource(e)

RECURSIVE rabbitsSocketTriples(_, _, _)
\* The events.forEach of the RABBITS processSocketIds: eventData.type === 114.
rabbitsSocketTriples(capture, httpsourceID, httpstreamList) ==
    IF capture = <<>> THEN <<>>
    ELSE LET e == Head(capture)
             eventIndex == indexOf(httpstreamList, e.id)
         IN  IF rabbitsSocketCheckThrows(e) THEN <<>>
             ELSE (IF /\ hasParams(e)
                      /\ e.source_dependency # Null
                      /\ e.type = 114
                      /\ eventIndex # 0
                   THEN <<socketTriple(httpsourceID, httpstreamList, eventIndex, e)>>
                   ELSE <<>>)
                  \o rabbitsSocketTriples(Tail(capture), httpsourceID, httpstreamList)

\* The triples of the RABBITS stage 2 for the lines of httpStreamJobIds.txt
\* ("h,j" for the pair [h, j]); an empty file is not scanned.
rabbitsScanSockets(httpstreamJobs, capture) ==
    IF Len(httpstreamJobs) # 0
    THEN rabbitsSocketTriples(capture,
                              [i \in DOMAIN httpstreamJobs |-> httpstreamJobs[i][1]],
                              [i \in DOMAIN httpstreamJobs |-> httpstreamJobs[i][2]])
    ELSE <<>>

\* Stage 1 of the RABBITS filter: the pairs are written to httpStreamJobIds.txt.
rabbitsProcessHttpStreamJobIds ==
    /\ pc = "written"
    /\ LET currentPosList == IF testType = "upload"
                             THEN current_position_list
                             ELSE byte_time_list
           list == [i \in DOMAIN currentPosList |-> currentPosList[i].id]
       IN  http_stream_job_ids' = rabbitsJobPairs(log, list)
    /\ stage_errors' =
          IF \E i \in DOMAIN log : jobCheckThrows(log[i])
          THEN stage_errors \cup {"processHttpStreamJobIds"}
          ELSE stage_errors
    /\ pc' = "jobs"
    /\ UNCHANGED <<passVars, socketIds, urlVars, fileVars, mainVars>>

\* Stage 2 of the RABBITS filter: the triples are written to socketIds.txt.
rabbitsProcessSocketIds ==
    /\ pc = "jobs"
    /\ socketIds' = rabbitsScanSockets(http_stream_job_ids, log)
    /\ stage_errors' =
          IF /\ Len(http_stream_job_ids) # 0
             /\ \E i \in DOMAIN log : rabbitsSocketCheckThrows(log[i])
          THEN stage_errors \cup {"processSocketIds"}
          ELSE stage_errors
    /\ pc' = "done"
    /\ UNCHANGED <<passVars, http_stream_job_ids, urlVars, fileVars, mainVars>>

\* Symbol tables of captures of three browser builds, which number the two
\* binding events 171 and 112, 173 and 114, 174 and 114.
CaptureNumberings ==
    {[completeLogEventTypes EXCEPT !.HTTP_STREAM_REQUEST_BOUND_TO_JOB = c[1],
                                   !.SOCKET_POOL_BOUND_TO_SOCKET = c[2]] :
        c \in {<<171, 112>>, <<173, 114>>, <<174, 114>>}}

\* The binding events of a capture with the symbol table given: streams 5
\* and 6 bound to the jobs 7 and 8, the jobs bound to the sockets 9 and 10.
NumberedEvents(table) ==
    {Event(table.HTTP_STREAM_REQUEST_BOUND_TO_JOB, b[1], 1, Null, Null, Null, Null,
           Some(b[2])) : b \in {<<5, 7>>, <<6, 8>>}}
    \cup
    {Event(table.SOCKET_POOL_BOUND_TO_SOCKET, b[1], 1, Null, Null, Null, Null,
           Some(b[2])) : b \in {<<7, 9>>, <<8, 10>>}}

\* The RABBITS filter after it has written the stream list of k streams,
\* for a capture of one of the builds.
InitRabbits ==
    \E table \in CaptureNumberings, tt \in {"download", "upload"}, k \in 0 .. MaxId :
        \E capture \in UNION {[1 .. n -> NumberedEvents(table)] : n \in 0 .. MaxEvents} :
            /\ pc = "written"
            /\ log = StreamPrefix(k, tt) \o capture
            /\ testType = tt
            /\ split_urls = IF tt = "upload" THEN <<"upload?nocache=a">>
                                             ELSE <<"download?nocache=a">>
            /\ split_unloaded_urls = <<>>
            /\ split_loaded_urls = <<>>
            /\ results = [i \in 1 .. k |-> [sourceID |-> 4 + i, index |-> 2 * (i - 1)]]
            /\ byte_time_list = IF tt = "download" THEN StreamListOf(k, tt) ELSE <<>>
            /\ current_position_list = IF tt = "upload" THEN StreamListOf(k, tt) ELSE <<>>
            /\ latency_data = emptyLatencyData
            /\ http_stream_job_ids = <<>>
            /\ socketIds = <<>>
            /\ stage_errors = {}
            /\ url_list = emptyUrlList
            /\ latency_urls = emptyLatencyUrls
            /\ logEventTypes = table
            /\ jsonString = <<>>
            /\ netlog = <<>>
            /\ parsed = Null
            /\ download_urls_json = Null
            /\ upload_urls_json = Null
            /\ filterMode = Null
            /\ steps = <<>>
            /\ exit_code = Null

NextRabbits == rabbitsProcessHttpStreamJobIds \/ rabbitsProcessSocketIds

SpecRabbits == InitRabbits /\ [][NextRabbits]_vars

\* The capture with its type codes changed one-to-one into those of table,
\* the codes the capture's own symbol table does not name left alone.
Renumbered(capture, table) ==
    [i \in DOMAIN capture |->
        IF \E name \in DOMAIN logEventTypes : logEventTypes[name] = capture[i].type
        THEN [capture[i] EXCEPT !.type =
                 table[CHOOSE name \in DOMAIN logEventTypes :
                          logEventTypes[name] = capture[i].type]]
        ELSE capture[i]]

\* C30: the output does not depend on the numeric event-type codes: the
\* capture renumbered one-to-one, in its symbol table and in every event,
\* into the codes of another build yields the same stream-job pairs and the
\* same socket triples.
C30_OutputIndependentOfTypeCodes ==
    pc = "done" =>
        \A table \in CaptureNumberings :
            LET other == Renumbered(log, table)
                list == [i \in DOMAIN ActiveList |-> ActiveList[i].id]
                pairs == rabbitsJobPairs(other, list)
            IN  /\ http_stream_job_ids = pairs
                /\ socketIds = rabbitsScanSockets(pairs, other)

\* --------------------------------------------- URL classifier specification
SourceIds == 1 .. MaxSourceId

\* Events carrying a URL: two download URLs, an upload URL, two hello URLs
\* and a foreign URL on any source, and a cache entry whose key names a
\* download URL.
UrlEvents ==
    {UrlEvent(id, Some(u), FALSE, Null) :
        id \in SourceIds,
        u \in {"https://srv:8080/download?nocache=a",
               "https://srv:8080/download?nocache=d",
               "https://srv:8080/upload?nocache=a",
               "https://srv:8080/hello?nocache=b",
               "https://srv:8080/hello?nocache=c",
               "https://ads.example/pixel"}}
    \cup
    {UrlEvent(id, Some("https://ads.example/pixel"), TRUE,
              Some(<<"1/0/_dk_https://srv", "https://srv",
                     "https://srv:8080/download?nocache=d">>)) :
        id \in SourceIds}

InitUrls ==
    /\ pc = "collect"
    /\ log = <<>>
    /\ testType = "download"
    /\ split_urls = <<>>
    /\ split_unloaded_urls = <<>>
    /\ split_loaded_urls = <<>>
    /\ results = <<>>
    /\ byte_time_list = <<>>
    /\ current_position_list = <<>>
    /\ latency_data = emptyLatencyData
    /\ http_stream_job_ids = <<>>
    /\ socketIds = <<>>
    /\ stage_errors = {}
    /\ url_list = emptyUrlList
    /\ latency_urls = emptyLatencyUrls
    /\ NoFiles

\* One iteration of collectUrlsFromNetlog's events.forEach.
CollectEvent(e) ==
    /\ pc = "collect"
    /\ url_list' = collectUrl(e, url_list)
    /\ UNCHANGED <<pc, passVars, socketVars, latency_urls, fileVars, mainVars>>

\* filterUrls after the last event: the hello URLs are separated.
SeparateHellos ==
    /\ pc = "collect"
    /\ latency_urls' = separateHelloUrlsByTiming(url_list)
    /\ pc' = "separated"
    /\ UNCHANGED <<passVars, socketVars, url_list, fileVars, mainVars>>

NextUrls ==
    \/ \E e \in UrlEvents : CollectEvent(e)
    \/ SeparateHellos

SpecUrls == InitUrls /\ [][NextUrls]_vars

SeqToSet(q) == {q[i] : i \in DOMAIN q}

IdleUrls ==
    SeqToSet(latency_urls.download.unload) \cup SeqToSet(latency_urls.upload.unload)
LoadedUrls ==
    SeqToSet(latency_urls.download.load) \cup SeqToSet(latency_urls.upload.load)

PayloadIds ==
    [i \in DOMAIN (url_list.download \o url_list.upload) |->
        (url_list.download \o url_list.upload)[i][2]]

\* C9: a hello URL with an id strictly below the first payload id is idle
\* latency, one between the first and the last payload id is loaded latency,
\* and one above the last payload id is loaded latency also when the other
\* direction has no payload URL; download ids [100,105] with hello ids
\* [50,102,110] give idle = [50] and loaded = [102,110].
C9_HelloClassifiedByBoundaries ==
    (pc = "separated" /\ PayloadIds # <<>>) =>
        LET firstPayloadId == PayloadIds[1]
            lastPayloadId == PayloadIds[Len(PayloadIds)]
        IN  \A i \in DOMAIN url_list.hello :
                LET url == url_list.hello[i][1]
                    id == url_list.hello[i][2]
                IN  /\ id < firstPayloadId =>
                          url \in IdleUrls /\ url \notin LoadedUrls
                    /\ (firstPayloadId < id /\ id < lastPayloadId) =>
                          url \in LoadedUrls /\ url \notin IdleUrls
                    /\ id > lastPayloadId =>
                          url \in LoadedUrls /\ url \notin IdleUrls

\* The number of places a URL takes in the four latency lists.
Occurrences(url) ==
    LET count(q) == Cardinality({i \in DOMAIN q : q[i] = url})
    IN  count(latency_urls.download.unload) + count(latency_urls.download.load)
        + count(latency_urls.upload.unload) + count(latency_urls.upload.load)

\* C10: no hello URL is dropped: every collected hello URL is in exactly one
\* of the latency lists, whatever its id is relative to the boundaries.
C10_NoHelloDropped ==
    pc = "separated" =>
        \A i \in DOMAIN url_list.hello : Occurrences(url_list.hello[i][1]) = 1

\* C11: when the capture holds no download and no upload payload URL, every
\* collected hello URL is classified as idle (unloaded) latency.
C11_NoPayloadAllHellosIdle ==
    (/\ pc = "separated"
     /\ url_list.download = <<>>
     /\ url_list.upload = <<>>) =>
        \A i \in DOMAIN url_list.hello : url_list.hello[i][1] \in IdleUrls

\* ------------------------------------------- malformed entries specification
\* Events of one download stream (source 1) and one hello exchange (source 2).
WellFormedEntries ==
    {Event(completeLogEventTypes.REQUEST_ALIVE, 1, 1,
           Some("https://srv:8080/download?nocache=a"), Null, Null, Null, Null),
     Event(completeLogEventTypes.URL_REQUEST_BYTES_READ, 1, 1, Null, Null, Some(100),
           Null, Null),
     Event(completeLogEventTypes.HTTP_TRANSACTION_SEND_REQUEST_HEADERS, 1, 1, Null,
           Some("GET /download?nocache=a HTTP/1.1"), Null, Null, Null),
     Event(completeLogEventTypes.HTTP_TRANSACTION_SEND_REQUEST_HEADERS, 2, 1, Null,
           Some("GET /hello?nocache=b HTTP/1.1"), Null, Null, Null),
     Event(completeLogEventTypes.HTTP_TRANSACTION_READ_RESPONSE_HEADERS, 1, 2, Null, Null,
           Null, Null, Null),
     Event(completeLogEventTypes.HTTP_TRANSACTION_READ_RESPONSE_HEADERS, 2, 2, Null, Null,
           Null, Null, Null)}

\* null, a value that is no object, and the events above with their source
\* or their params taken away.
MalformedEntries ==
    {NullEntry, ValueEntry}
    \cup {NoSourceEntry(e.type, e.time, e.url, e.line, e.byte_count) :
            e \in WellFormedEntries}
    \cup {NoParamsEntry(e.type, e.id, e.time) : e \in WellFormedEntries}

InitEntries ==
    InitRun("download", <<"download?nocache=a">>, <<"hello?nocache=b">>,
            <<"hello?nocache=b">>)

NextEntries ==
    \/ \E e \in WellFormedEntries \cup MalformedEntries : ProcessEvent(e)
    \/ EndPass

SpecEntries == InitEntries /\ [][NextEntries]_vars

RECURSIVE forEach(_, _, _)
\* events.forEach from position index on, from the collections st.
forEach(events, index, st) ==
    IF events = <<>> THEN st
    ELSE forEach(Tail(events), index + 1, forEachBody(Head(events), index, st))

\* The event list with its k-th entry removed.
RemoveAt(events, k) ==
    SubSeq(events, 1, k - 1) \o SubSeq(events, k + 1, Len(events))

MalformedAt == {k \in DOMAIN log : log[k].form # "object"}

\* C12: one malformed entry in the events array (null, a value that is no
\* object, an object without source or without params) does not abort the
\* pass: the stream records and the three latency pools at the end are those
\* of the pass over the same event list with that entry removed.
C12_MalformedEntryIsSkipped ==
    (pc = "written" /\ Cardinality(MalformedAt) = 1) =>
        LET k == CHOOSE i \in MalformedAt : TRUE
            without == forEach(RemoveAt(log, k), 0,
                               [results |-> <<>>,
                                byte_time_list |-> <<>>,
                                current_position_list |-> <<>>,
                                latency_data |-> emptyLatencyData])
        IN  /\ byte_time_list = without.byte_time_list
            /\ current_position_list = without.current_position_list
            /\ latency_data = updateAllLatencyStatistics(without.latency_data)

\* A pass with a malformed entry between an opening event and a read event of
\* the same stream has ended with that stream's record written.
C12_Witness ==
    /\ pc = "written"
    /\ Cardinality(MalformedAt) = 1
    /\ Len(log) = 3
    /\ log[2].form # "object"
    /\ byte_time_list # <<>>

\* ----------------------------------- stages over malformed entries
\* Entries the two stages meet after the events of the streams: the binding
\* events of the chain 5 -> 7 -> 9, null, a value that is no object, the
\* socket event without its source and the job event without its params.
StageEntries ==
    {Event(completeLogEventTypes.HTTP_STREAM_REQUEST_BOUND_TO_JOB, 5, 1, Null, Null,
           Null, Null, Some(7)),
     Event(completeLogEventTypes.SOCKET_POOL_BOUND_TO_SOCKET, 7, 1, Null, Null,
           Null, Null, Some(9)),
     NullEntry,
     ValueEntry,
     [NoSourceEntry(completeLogEventTypes.SOCKET_POOL_BOUND_TO_SOCKET, 1, Null,
                    Null, Null) EXCEPT !.source_dependency = Some(9)],
     NoParamsEntry(completeLogEventTypes.HTTP_STREAM_REQUEST_BOUND_TO_JOB, 5, 1)}

\* The run after its event pass over a capture that holds the events of
\* stream 5, or not, followed by such entries, none of which changes a
\* collection of the pass: the stream list and the latency data are written.
InitStages ==
    \E tt \in {"download", "upload"}, k \in {0, 1},
       capture \in UNION {[1 .. n -> StageEntries] : n \in 0 .. MaxEvents} :
        /\ pc = "written"
        /\ log = StreamPrefix(k, tt) \o capture
        /\ testType = tt
        /\ split_urls = IF tt = "upload" THEN <<"upload?nocache=a">>
                                         ELSE <<"download?nocache=a">>
        /\ split_unloaded_urls = <<>>
        /\ split_loaded_urls = <<>>
        /\ results = [i \in 1 .. k |-> [sourceID |-> 4 + i, index |-> 2 * (i - 1)]]
        /\ byte_time_list = IF tt = "download" THEN StreamListOf(k, tt) ELSE <<>>
        /\ current_position_list = IF tt = "upload" THEN StreamListOf(k, tt) ELSE <<>>
        /\ latency_data = emptyLatencyData
        /\ http_stream_job_ids = <<>>
        /\ socketIds = <<>>
        /\ stage_errors = {}
        /\ url_list = emptyUrlList
        /\ latency_urls = emptyLatencyUrls
        /\ NoFiles

NextStages == processHttpStreamJobIds \/ processSocketIds

SpecStages == InitStages /\ [][NextStages]_vars

\* Every element of the list expected is an element of the list actual.
AllPresent(expected, actual) ==
    \A p \in DOMAIN expected : \E q \in DOMAIN actual : actual[q] = expected[p]

\* C23: in both socket-chain passes one malformed entry in the events array
\* does not abort the pass: every pair and every triple that the events give
\* without that entry is in the written httpStreamJobIds.json and
\* socketIds.json.
C23_MalformedEntryDoesNotAbortStages ==
    (pc = "done" /\ Cardinality(MalformedAt) = 1) =>
        LET k == CHOOSE i \in MalformedAt : TRUE
            without == RemoveAt(log, k)
            list == [i \in DOMAIN ActiveList |-> ActiveList[i].id]
            pairs == collectJobPairs(without, list)
        IN  /\ AllPresent(pairs, http_stream_job_ids)
            /\ AllPresent(scanSockets(pairs, without).socketIds, socketIds)

\* C24: when stage 1 produced no pairs, processSocketIds scans no events,
\* raises no error and writes socketIds.json as an empty list.
C24_NoPairsNoScan ==
    (pc = "done" /\ http_stream_job_ids = <<>>) =>
        /\ socketIds = <<>>
        /\ "processSocketIds" \notin stage_errors

\* Stage 2 has run without pairs over a capture holding a socket event
\* without source, at which a scan would have thrown.
C24_Witness ==
    /\ pc = "done"
    /\ http_stream_job_ids = <<>>
    /\ \E i \in DOMAIN log : log[i].form = "no_source" /\ socketCheckThrows(log[i])
    /\ socketIds = <<>>
    /\ stage_errors = {}

\* ------------------------------------------------------ repair specification
MaxTokens == 4

TextTokens == {EV_A, EV_B, ",", "]", "}", WS, CUT_KEY, CUT_NESTED}

\* Capture texts: the two openings followed by up to MaxTokens pieces, which
\* gives complete captures, captures cut at any place, and broken ones.
Texts ==
    {<<T_CONSTANTS, T_EVENTS>> \o body :
        body \in UNION {[1 .. n -> TextTokens] : n \in 0 .. MaxTokens}}

InitRepair ==
    \E text \in Texts :
        /\ pc = "repair"
        /\ log = <<>>
        /\ testType = "download"
        /\ split_urls = <<>>
        /\ split_unloaded_urls = <<>>
        /\ split_loaded_urls = <<>>
        /\ results = <<>>
        /\ byte_time_list = <<>>
        /\ current_position_list = <<>>
        /\ latency_data = emptyLatencyData
        /\ http_stream_job_ids = <<>>
        /\ socketIds = <<>>
        /\ stage_errors = {}
        /\ url_list = emptyUrlList
        /\ latency_urls = emptyLatencyUrls
        /\ logEventTypes = completeLogEventTypes
        /\ jsonString = text
        /\ netlog = text
        /\ parsed = Null
        /\ download_urls_json = Null
        /\ upload_urls_json = Null
        /\ filterMode = Null
        /\ steps = <<>>
        /\ exit_code = Null

NextRepair == Repair

SpecRepair == InitRepair /\ [][NextRepair]_vars

\* The text without its line breaks.
Pieces(str) == SelectSeq(str, LAMBDA tok : tok # WS)

\* The text is a capture cut directly after a complete event, with or
\* without a dangling comma, and without the closing bracket and brace.
IsCutAfterEvent(str) ==
    LET t == Pieces(str)
        body == SubSeq(t, 3, Len(t))
    IN  /\ Len(t) >= 3
        /\ t[1] = T_CONSTANTS /\ t[2] = T_EVENTS
        /\ body[1] \in EventTokens
        /\ \A i \in DOMAIN body :
              IF i % 2 = 1 THEN body[i] \in EventTokens ELSE body[i] = ","

\* C13: for a capture text cut directly after a complete event, with or
\* without a dangling comma, fixAndParseJSON returns an object whose events
\* are exactly the complete events before the cut, in order; the text
\* ...,"events":[{"a":1},{"b":2}, gives events = [{"a":1},{"b":2}].
C13_RepairKeepsCompleteEvents ==
    (pc = "repaired" /\ IsCutAfterEvent(jsonString)) =>
        /\ parsed # Null
        /\ Val(parsed).events = SelectSeq(jsonString, LAMBDA tok : tok \in EventTokens)
        /\ Pieces(jsonString) = <<T_CONSTANTS, T_EVENTS, EV_A, ",", EV_B, ",">>
              => Val(parsed).events = <<EV_A, EV_B>>

\* The text of the example, with its dangling comma, has been repaired.
C13_Witness ==
    /\ pc = "repaired"
    /\ jsonString = <<T_CONSTANTS, T_EVENTS, EV_A, ",", EV_B, ",">>
    /\ parsed # Null
    /\ Val(parsed).events = <<EV_A, EV_B>>

\* C14: fixAndParseJSON writes the file only after a repaired text has
\* parsed, and writes exactly that text, so that the file then parses to the
\* value returned; when the strict parse succeeds, and when null is returned,
\* the file is left as it was.
C14_WriteOnlyAfterRepairParsed ==
    pc = "repaired" =>
        /\ netlog # jsonString =>
              /\ parsed # Null
              /\ JSONparse(netlog) = parsed
        /\ JSONparse(trim(jsonString)) # Null => netlog = jsonString
        /\ parsed = Null => netlog = jsonString

\* A text cut inside an event was repaired by the second attempt and written.
C14_Witness ==
    /\ pc = "repaired"
    /\ jsonString = <<T_CONSTANTS, T_EVENTS, EV_A, ",", CUT_KEY>>
    /\ netlog = <<T_CONSTANTS, T_EVENTS, EV_A, "]", "}">>
    /\ parsed # Null

\* ------------------------------------------------------ driver specification
\* testUrls[i].split("/").slice(3).join("/"): the URL without scheme and host.
splitUrl(url) ==
    CASE url = "https://srv:8080/download?nocache=a" -> "download?nocache=a"
      [] url = "https://srv:8080/upload?nocache=a" -> "upload?nocache=a"
      [] url = "https://srv:8080/hello?nocache=b" -> "hello?nocache=b"
      [] OTHER -> ""

splitUrls(urls) == [i \in DOMAIN urls |-> splitUrl(urls[i])]

\* The value of the global testType after splitTestTypeUrls has looked at the
\* URL lists: it is assigned only when one of the two lists has a URL.
splitTestType(urlJSON, global) ==
    IF Len(urlJSON.download) > 0 THEN "download"
    ELSE IF Len(urlJSON.upload) > 0 THEN "upload"
    ELSE global

\* processNetlogFile(filePath, urlPath) up to its event pass, called by main
\* first with the download and then with the upload URL file; the capture
\* file is the one filterUrls has parsed, with its constants and events.  A SyntaxError
\* of JSON.parse on the URL file and the ReferenceError of reading the global
\* testType before any call has assigned it are caught by the function's own
\* catch, which logs them: the call returns without having written anything.
processNetlogFile ==
    /\ \/ pc = "urls" /\ steps = <<>>
       \/ pc \in {"done", "failed"} /\ Len(steps) = 1
    /\ LET direction == IF steps = <<>> THEN "download" ELSE "upload"
           urlJSON == IF steps = <<>> THEN Val(download_urls_json)
                                      ELSE Val(upload_urls_json)
           error == IF ~urlJSON.valid THEN Some("SyntaxError")
                    ELSE IF splitTestType(urlJSON, testType) = "undeclared"
                    THEN Some("ReferenceError")
                    ELSE Null
       IN  /\ steps' = Append(steps, [urlPath |-> direction, error |-> error])
           /\ IF error # Null
              THEN /\ pc' = "failed"
                   /\ UNCHANGED <<testType, split_urls, split_unloaded_urls,
                                  split_loaded_urls>>
              ELSE /\ pc' = "pass"
                   /\ testType' = splitTestType(urlJSON, testType)
                   /\ split_urls' =
                        splitUrls(IF Len(urlJSON.download) > 0
                                  THEN urlJSON.download ELSE urlJSON.upload)
                   /\ split_unloaded_urls' = splitUrls(urlJSON.unload)
                   /\ split_loaded_urls' = splitUrls(urlJSON.load)
    /\ log' = <<>>
    /\ results' = <<>>
    /\ byte_time_list' = <<>>
    /\ current_position_list' = <<>>
    /\ latency_data' = emptyLatencyData
    /\ http_stream_job_ids' = <<>>
    /\ socketIds' = <<>>
    /\ stage_errors' = {}
    /\ UNCHANGED <<urlVars, fileVars, filterMode, exit_code>>

\* The events of the capture file, as the event pass meets them.
events == [i \in DOMAIN Val(parsed).events |-> EventOf(Val(parsed).events[i])]

\* The event pass of the driver's call: the next entry of the file.
PassNextEvent ==
    /\ steps # <<>>
    /\ Len(log) < Len(events)
    /\ ProcessEvent(events[Len(log) + 1])

\* The event pass of the driver's call has met its last entry.
PassEnd ==
    /\ steps # <<>>
    /\ Len(log) = Len(events)
    /\ EndPass

\* main after its second processNetlogFile call has returned: the process
\* ends with status 0.
mainReturns ==
    /\ pc \in {"done", "failed"}
    /\ Len(steps) = 2
    /\ pc' = "exited"
    /\ exit_code' = Some(0)
    /\ UNCHANGED <<passVars, socketVars, urlVars, fileVars, filterMode, steps>>

\* main is run again on the directory the last run has left: a new process,
\* in which no global is assigned yet.
mainAgain ==
    /\ pc = "exited"
    /\ pc' = "main"
    /\ testType' = "undeclared"
    /\ steps' = <<>>
    /\ exit_code' = Null
    /\ log' = <<>>
    /\ url_list' = emptyUrlList
    /\ latency_urls' = emptyLatencyUrls
    /\ UNCHANGED <<split_urls, split_unloaded_urls, split_loaded_urls, results,
                   byte_time_list, current_position_list, latency_data,
                   socketVars, fileVars, filterMode>>

\* The capture text of an event list: the events separated by commas.
RECURSIVE joinEvents(_)
joinEvents(list) ==
    IF list = <<>> THEN <<>>
    ELSE IF Len(list) = 1 THEN list
    ELSE <<Head(list), ",", WS>> \o joinEvents(Tail(list))

\* Capture files: complete ones, ones cut after an event with and without
\* the dangling comma, and one cut inside an event after which no repair
\* attempt gives JSON.
CaptureFiles ==
    LET lists == {<<>>, <<EV_A>>, <<EV_DOWNLOAD, EV_READ>>, <<EV_UPLOAD>>,
                  <<EV_HELLO, EV_DOWNLOAD, EV_UPLOAD>>,
                  <<EV_DOWNLOAD, EV_UNTYPED>>}
        head == <<T_CONSTANTS, T_EVENTS>>
    IN  {head \o joinEvents(l) \o <<"]", "}", WS>> : l \in lists}
        \cup {head \o joinEvents(l) \o <<",", WS>> : l \in lists \ {<<>>}}
        \cup {head \o joinEvents(l) : l \in lists \ {<<>>}}
        \cup {head \o <<CUT_NESTED, ",", CUT_KEY>>}

\* Symbol tables: the complete one and one that lacks URL_REQUEST_BYTES_READ.
SymbolTables ==
    {completeLogEventTypes,
     [name \in DOMAIN completeLogEventTypes \ {"URL_REQUEST_BYTES_READ"} |->
        completeLogEventTypes[name]]}

\* URL files the directory may hold from before: none, the files of an
\* earlier capture, or a file that is not JSON.
EarlierUrlFiles ==
    {Null, Some(corruptUrlFile),
     Some(UrlFile(<<"https://srv:8080/download?nocache=a">>, <<>>, <<>>, <<>>))}

\* main after parseCLIArgs and resolveNetlogPath have returned.
InitMain ==
    \E file \in CaptureFiles, table \in SymbolTables,
       mode \in {Null, Some("download"), Some("upload")},
       dl \in EarlierUrlFiles, ul \in EarlierUrlFiles :
        /\ pc = "main"
        /\ log = <<>>
        /\ testType = "undeclared"
        /\ split_urls = <<>>
        /\ split_unloaded_urls = <<>>
        /\ split_loaded_urls = <<>>
        /\ results = <<>>
        /\ byte_time_list = <<>>
        /\ current_position_list = <<>>
        /\ latency_data = emptyLatencyData
        /\ http_stream_job_ids = <<>>
        /\ socketIds = <<>>
        /\ stage_errors = {}
        /\ url_list = emptyUrlList
        /\ latency_urls = emptyLatencyUrls
        /\ logEventTypes = table
        /\ jsonString = <<>>
        /\ netlog = file
        /\ parsed = Null
        /\ download_urls_json = dl
        /\ upload_urls_json = ul
        /\ filterMode = mode
        /\ steps = <<>>
        /\ exit_code = Null

NextMain ==
    \/ filterUrls
    \/ processNetlogFile
    \/ PassNextEvent
    \/ PassEnd
    \/ processHttpStreamJobIds
    \/ processSocketIds
    \/ mainReturns
    \/ mainAgain

SpecMain == InitMain /\ [][NextMain]_vars

\* C15: for a capture file that is cut but repairable, the repair is made and
\* persisted before any step that needs the parsed capture: the file is found
\* unrepaired only before filterUrls, and no strict parse of it ends the run.
C15_RepairBeforeStrictParse ==
    IsCutAfterEvent(netlog) => (pc = "main" /\ exit_code = Null)

EngineNames == DOMAIN completeLogEventTypes

\* C16: when an event-type name the engine refers to is not in the capture's
\* symbol table, resolution fails with an error: the event pass is not run
\* and no output is written with the unresolved name.
C16_UnresolvedNameStopsTheEngine ==
    (\E name \in EngineNames : name \notin DOMAIN logEventTypes) =>
        pc \notin {"pass", "written", "jobs", "done"}

\* C17: main ends with a status other than 0 whenever one of its
\* processNetlogFile calls could not parse the capture or its URL file; the
\* status is 0 only if both calls went without such a failure.
C17_ParseFailureGivesNonZeroExit ==
    (/\ pc = "exited"
     /\ \E i \in DOMAIN steps : steps[i].error = Some("SyntaxError")) =>
        exit_code # Some(0)

\* The URL file the current processNetlogFile call was given.
urlJSON ==
    IF Len(steps) = 1 THEN Val(download_urls_json) ELSE Val(upload_urls_json)

\* C18: a processNetlogFile call whose URL file has an empty download and an
\* empty upload list completes and writes its output: an empty stream list,
\* latency statistics of 0 in every class without samples, and empty
\* httpStreamJobIds.json and socketIds.json.
C18_EmptyUrlListsGiveEmptyOutput ==
    (/\ pc \in {"failed", "done"}
     /\ urlJSON.valid
     /\ urlJSON.download = <<>>
     /\ urlJSON.upload = <<>>) =>
        /\ pc = "done"
        /\ byte_time_list = <<>>
        /\ \A class \in DOMAIN latency_data :
              latency_data[class].streams = <<>> =>
                  latency_data[class].latency_ms =
                      [count_rtt |-> 0, mean_rtt |-> 0, median_rtt |-> 0]
        /\ http_stream_job_ids = <<>>
        /\ socketIds = <<>>

\* The URL files that filterUrls derives from a capture text.
UrlFilesOf(text) ==
    LET ul == collectUrls(Val(JSONparse(text)).events, emptyUrlList)
        lu == separateHelloUrlsByTiming(ul)
    IN  [download |-> UrlFile(firstOfPairs(ul.download), <<>>,
                              lu.download.load, lu.download.unload),
         upload |-> UrlFile(<<>>, firstOfPairs(ul.upload),
                            lu.upload.load, lu.upload.unload)]

\* A filterUrls call that returns keeps each URL file that exists and writes
\* each other one with what the capture alone determines.
UrlFilesWrittenOnce ==
    (pc = "main" /\ pc' = "urls") =>
        /\ download_urls_json' =
             IF download_urls_json # Null THEN download_urls_json
             ELSE Some(UrlFilesOf(netlog).download)
        /\ upload_urls_json' =
             IF upload_urls_json # Null THEN upload_urls_json
             ELSE Some(UrlFilesOf(netlog).upload)

\* C19: URL classification is deterministic and write-once: the URL files
\* that filterUrls writes depend on the capture only, a URL file that exists
\* is never rewritten, and a run on the directory a run has left changes
\* neither file.
C19_UrlFilesDeterministicWriteOnce ==
    [][/\ UrlFilesWrittenOnce
       /\ (download_urls_json # Null /\ upload_urls_json # Null) =>
             UNCHANGED <<download_urls_json, upload_urls_json>>]_vars

\* filterUrls has returned in a directory where upload_urls.json existed and
\* download_urls.json did not: the first is kept, the second is written.
C19_Witness ==
    /\ pc = "urls"
    /\ upload_urls_json = Some(corruptUrlFile)
    /\ download_urls_json =
         Some(UrlFile(<<"https://srv:8080/download?nocache=a">>, <<>>, <<>>,
                      <<"https://srv:8080/hello?nocache=b">>))

\* C20: with the -download flag processNetlogFile is never run on the upload
\* URL file, with -upload never on the download URL file, and with neither
\* flag both are processed, download first.
C20_FlagSelectsDirection ==
    /\ filterMode = Some("download") =>
          \A i \in DOMAIN steps : steps[i].urlPath # "upload"
    /\ filterMode = Some("upload") =>
          \A i \in DOMAIN steps : steps[i].urlPath # "download"
    /\ (filterMode = Null /\ pc = "exited" /\ exit_code = Some(0)) =>
          /\ Len(steps) = 2
          /\ steps[1].urlPath = "download" /\ steps[2].urlPath = "upload"

\* C27: the test direction a processNetlogFile call uses is a function of
\* that call's URL list alone: a call whose URL list has an empty download
\* list is never processed as direction 'download' because an earlier call
\* in the same process was.
C27_DirectionFromOwnUrlList ==
    (/\ pc \in {"pass", "written", "jobs", "done"}
     /\ steps # <<>>
     /\ urlJSON.download = <<>>) =>
        testType # "download"

\* The symbol table maps the name to the type code of the event.
HasNamedType(e, name) ==
    name \in DOMAIN logEventTypes /\ e.type = logEventTypes[name]

\* C28: an event is treated as having a named type only if the symbol table
\* maps that name to the event's type code; when a name is missing from the
\* table no event, an event without type field included, is matched as that
\* type: every progress entry of a download record stems from an event that
\* the table names as one of the two download read types.
C28_TypeMatchOnlyThroughTable ==
    \A r \in DOMAIN byte_time_list :
        \A k \in DOMAIN byte_time_list[r].progress :
            \E i \in DOMAIN log :
                /\ log[i].id = byte_time_list[r].id
                /\ log[i].time = byte_time_list[r].progress[k].time
                /\ log[i].byte_count = Some(byte_time_list[r].progress[k].bytecount)
                /\ \/ HasNamedType(log[i], "URL_REQUEST_JOB_FILTERED_BYTES_READ")
                   \/ HasNamedType(log[i], "URL_REQUEST_BYTES_READ")

====
